---- MODULE Spec2Model ----
(***************************************************************************)
(* Orchestration engine of rusty-claw: the file-backed work queue, the     *)
(* poll loop with its per-agent workers, the in-memory conversation        *)
(* tracker, and the cooldown / failover manager.                           *)
(*                                                                         *)
(* Spec         the queue processor (poll loop, workers, conversations,    *)
(*              timeout sweep, crash and restart).                         *)
(* SpecFair     Spec with the fairness of the tokio scheduler, in runs     *)
(*              with a crash or a wait of half an hour, not both.          *)
(* SpecFailing  Spec with agent invocations that fail on every model.      *)
(* SpecHang     Spec with hop files that are lost on their way to the      *)
(*              queue, in a process that keeps running.                    *)
(* SpecAudit    Spec with the replies and transcripts recorded in full.    *)
(* SpecCap      Spec started late in a long conversation.                  *)
(* SpecFailover invoke_agent_with_failover, by concurrent callers, against *)
(*              the persisted cooldown store.                              *)
(* SpecRouting  parse_agent_routing on its own, over bounded messages.     *)
(* SpecSmart    match_agent_by_content on its own, over bounded rules.     *)
(* SpecPoison   SpecFair started with a message whose JSON does not parse. *)
(* SpecNatural  Spec with responses that address an agent in plain words.  *)
(* SpecBacklog  Spec with more messages for an agent than its channel holds. *)
(* SpecFile     the cooldown store as a file that is written in pieces.    *)
(* SpecSelect   the choice of the agent of a message, over settings files. *)
(* SpecSession  the turns of an agent against its session store.           *)
(* SpecFresh    evaluate_session_freshness on its own, over bounded times. *)
(* SpecCompact  should_compact on its own, over bounded totals.            *)
(* SpecDispatch SpecAudit started with a message for several agents.       *)
(* SpecMentions the mention extraction on its own, over bounded responses. *)
(* SpecTurn     the turns of an agent from the look at its session to the  *)
(*              reply: invocation, session update, compaction.             *)
(***************************************************************************)
EXTENDS Integers, Sequences, FiniteSets, Bags, TLC

(***************************************************************************)
(* Bounds of the model.                                                    *)
(***************************************************************************)
MaxUserMsgs == 2
MaxHops == 1
MaxCrashes == 1
MaxAdvances == 1
ClockStep == 1800001
MaxErrors == 4
MaxTicks == 2
TickMs == 60000
StartTime == 3600000
MaxCallers == 2
CapMargin == 2
MaxMsgLen == 4
MaxPriority == 1
MaxTurns == 2
MaxSessionTicks == 3
SessionStep == 3600001
MaxChars == 2
MaxHour == 29
CompactMargin == 2
MaxTags == 3
CycleMargin == 3

(***************************************************************************)
(* Program constants.                                                      *)
(***************************************************************************)
CONVERSATION_TIMEOUT_MS == 1800000
MAX_CONVERSATION_MESSAGES == 50
ChannelCapacity == 100

(***************************************************************************)
(* Configuration: the settings the processor reads on every call.          *)
(* Three agents, none of them called "default"; one team, dev, led by      *)
(* coder with reviewer as its other member; ops is outside every team.     *)
(***************************************************************************)
NoAgent == ""
NoTeam == ""
NoConv == 0

AgentIds == {"coder", "reviewer", "ops"}

Agents ==
  [a \in AgentIds |->
     [name |-> CASE a = "coder" -> "Coder"
                 [] a = "reviewer" -> "Reviewer"
                 [] OTHER -> "Ops",
      cross_team_handoffs |-> (a = "coder"),
      route_patterns |-> {},
      route_priority |-> 0]]

Teams ==
  [t \in {"dev"} |->
     [name |-> "Dev", agents |-> <<"coder", "reviewer">>, leader_agent |-> "coder"]]

SeqToSet(s) == {s[i] : i \in 1..Len(s)}

(***************************************************************************)
(* Message text: a sequence of whitespace-separated tokens; an @-token     *)
(* carries the id that follows the @.                                      *)
(***************************************************************************)
At(id) == [at |-> TRUE, w |-> id]
Word(w) == [at |-> FALSE, w |-> w]

\* str::to_lowercase on the ids and names the model uses
Lower(s) ==
  CASE s = "Coder" -> "coder"
    [] s = "Reviewer" -> "reviewer"
    [] s = "Ops" -> "ops"
    [] s = "Dev" -> "dev"
    [] s = "DEV" -> "dev"
    [] s = "CODER" -> "coder"
    [] s = "Core" -> "core"
    [] s = "Platform" -> "platform"
    [] s = "BUG" -> "bug"
    [] OTHER -> s

\* index of the first token that does not start with @, Len+1 when there is none
RECURSIVE FirstNonAt(_, _)
FirstNonAt(tokens, i) ==
  IF i > Len(tokens) THEN i
  ELSE IF ~tokens[i].at THEN i
  ELSE FirstNonAt(tokens, i + 1)

\* the known, distinct agent ids of the leading @ run, in order of appearance
RECURSIVE PrefixAgents(_, _, _, _)
PrefixAgents(tokens, i, agents, acc) ==
  IF i > Len(tokens) \/ ~tokens[i].at THEN acc
  ELSE LET id == Lower(tokens[i].w)
       IN PrefixAgents(tokens, i + 1, agents,
            IF id \in DOMAIN agents /\ id \notin SeqToSet(acc)
            THEN Append(acc, id) ELSE acc)

\* detect_multiple_agents without the look at the teams
detect_agents_of_any_team(message, agents, teams) ==
  PrefixAgents(message, 1, agents, <<>>)

detect_multiple_agents(message, agents, teams) ==
  LET valid == PrefixAgents(message, 1, agents, <<>>)
  IN IF Len(valid) > 1
        /\ \E t \in DOMAIN teams : SeqToSet(valid) \subseteq SeqToSet(teams[t].agents)
     THEN <<>>
     ELSE valid

\* number of the agent's patterns that occur as a word of the message
MatchCount(message, agents, a) ==
  Cardinality({p \in agents[a].route_patterns :
                 \E i \in 1..Len(message) : Lower(message[i].w) = Lower(p)})

\* the loop of match_agent_by_content over the agents in the order `order`
RECURSIVE MatchFold(_, _, _, _, _)
MatchFold(order, i, message, agents, best) ==
  IF i > Len(order) THEN best
  ELSE LET a == order[i]
           n == MatchCount(message, agents, a)
           p == agents[a].route_priority
       IN IF n = 0 THEN MatchFold(order, i + 1, message, agents, best)
          ELSE IF best.id = NoAgent
               THEN MatchFold(order, i + 1, message, agents, [id |-> a, pri |-> p, n |-> n])
          ELSE IF p > best.pri \/ (p = best.pri /\ n > best.n)
               THEN MatchFold(order, i + 1, message, agents, [id |-> a, pri |-> p, n |-> n])
          ELSE IF p = best.pri /\ n = best.n
               THEN [id |-> NoAgent, pri |-> 0, n |-> 0]
          ELSE MatchFold(order, i + 1, message, agents, best)

\* some enumeration of a finite set (the iteration order of a HashMap)
RECURSIVE SetToSeq(_)
SetToSeq(S) ==
  IF S = {} THEN <<>>
  ELSE LET x == CHOOSE y \in S : TRUE IN <<x>> \o SetToSeq(S \ {x})

\* match_agent_by_content when the map yields its agents in the order `order`
MatchInOrder(order, message, agents) ==
  MatchFold(order, 1, message, agents, [id |-> NoAgent, pri |-> 0, n |-> 0]).id

match_agent_by_content(message, agents) ==
  MatchInOrder(SetToSeq(DOMAIN agents), message, agents)

\* the first agent, in the order the map yields them, whose display name
\* is the candidate
RECURSIVE FirstNamed(_, _, _, _)
FirstNamed(order, i, agents, candidate_id) ==
  IF i > Len(order) THEN NoAgent
  ELSE IF Lower(agents[order[i]].name) = candidate_id THEN order[i]
  ELSE FirstNamed(order, i + 1, agents, candidate_id)

NoPrefix == [agent_id |-> NoAgent, is_team |-> FALSE]

\* MatchPrefix with the team ids looked up before the agent ids
MatchPrefixTeamFirst(order, candidate_id, agents, teams) ==
  LET byName == FirstNamed(order, 1, agents, candidate_id)
      teamByName == {t \in DOMAIN teams : Lower(teams[t].name) = candidate_id}
  IN IF candidate_id \in DOMAIN teams
     THEN [agent_id |-> teams[candidate_id].leader_agent, is_team |-> TRUE]
     ELSE IF candidate_id \in DOMAIN agents
     THEN [agent_id |-> candidate_id, is_team |-> FALSE]
     ELSE IF byName # NoAgent
     THEN [agent_id |-> byName, is_team |-> FALSE]
     ELSE IF teamByName # {}
     THEN [agent_id |-> teams[CHOOSE t \in teamByName : TRUE].leader_agent,
           is_team |-> TRUE]
     ELSE NoPrefix

\* the four lookups of the candidate of an @prefix: agent id, team id, agent
\* display name, team display name
MatchPrefix(order, candidate_id, agents, teams) ==
  LET byName == FirstNamed(order, 1, agents, candidate_id)
      teamByName == {t \in DOMAIN teams : Lower(teams[t].name) = candidate_id}
  IN IF candidate_id \in DOMAIN agents
     THEN [agent_id |-> candidate_id, is_team |-> FALSE]
     ELSE IF candidate_id \in DOMAIN teams
     THEN [agent_id |-> teams[candidate_id].leader_agent, is_team |-> TRUE]
     ELSE IF byName # NoAgent
     THEN [agent_id |-> byName, is_team |-> FALSE]
     ELSE IF teamByName # {}
     THEN [agent_id |-> teams[CHOOSE t \in teamByName : TRUE].leader_agent,
           is_team |-> TRUE]
     ELSE NoPrefix

\* parse_agent_routing when the map of the agents yields them in the order
\* `order`
RouteInOrder(order, raw_message, agents, teams) ==
  LET mentioned == detect_multiple_agents(raw_message, agents, teams)
      k == FirstNonAt(raw_message, 1)
      rest == SubSeq(raw_message, k, Len(raw_message))
      prefixed == Len(raw_message) >= 2 /\ raw_message[1].at
      found == IF prefixed
               THEN MatchPrefix(order, Lower(raw_message[1].w), agents, teams)
               ELSE NoPrefix
      smart == MatchInOrder(order, raw_message, agents)
  IN IF Len(mentioned) > 1
     THEN [agent_id |-> mentioned[1],
           message |-> IF rest = <<>> THEN raw_message ELSE rest,
           is_team |-> FALSE, multi_agents |-> mentioned]
     ELSE IF found # NoPrefix
     THEN [agent_id |-> found.agent_id,
           message |-> SubSeq(raw_message, 2, Len(raw_message)),
           is_team |-> found.is_team, multi_agents |-> <<>>]
     ELSE IF smart # NoAgent
     THEN [agent_id |-> smart, message |-> raw_message,
           is_team |-> FALSE, multi_agents |-> <<>>]
     ELSE [agent_id |-> "default", message |-> raw_message,
           is_team |-> FALSE, multi_agents |-> <<>>]

parse_agent_routing(raw_message, agents, teams) ==
  RouteInOrder(SetToSeq(DOMAIN agents), raw_message, agents, teams)

\* the first team (in the map's iteration order) that contains the agent
find_team_for_agent(agent_id, teams) ==
  LET ts == {t \in DOMAIN teams : agent_id \in SeqToSet(teams[t].agents)}
  IN IF ts = {} THEN {NoTeam} ELSE ts

(***************************************************************************)
(* An agent's response, as far as handoffs go: the sequence of its         *)
(* directive tags.  form "bracket" is [@id: text], "bang" is [@!id: text], *)
(* "natural" is a line that begins with @id followed by : or a dash.       *)
(***************************************************************************)
Tag(form, id) == [form |-> form, id |-> id]

is_teammate(mentioned_id, current_agent_id, team_id, teams, agents) ==
  /\ team_id \in DOMAIN teams
  /\ mentioned_id # current_agent_id
  /\ mentioned_id \in SeqToSet(teams[team_id].agents)
  /\ mentioned_id \in DOMAIN agents

\* the ids a response mentions, in lower case
TagIds(response) == {Lower(response[i].id) : i \in 1..Len(response)}

\* the ids of the tags of the given forms that are in `valid`, each once, in
\* order of appearance, none of them in `already`
RECURSIVE ExtractIds(_, _, _, _, _, _)
ExtractIds(response, i, forms, valid, already, acc) ==
  IF i > Len(response) THEN acc
  ELSE LET id == Lower(response[i].id)
       IN ExtractIds(response, i + 1, forms, valid, already,
            IF /\ response[i].form \in forms
               /\ id \notin already
               /\ id \notin SeqToSet(acc)
               /\ id \in valid
            THEN Append(acc, id) ELSE acc)

extract_teammate_mentions(response, current_agent_id, team_id, teams, agents) ==
  LET valid == {id \in TagIds(response) :
                  is_teammate(id, current_agent_id, team_id, teams, agents)}
  IN ExtractIds(response, 1, {"bracket"}, valid, {}, <<>>)

extract_cross_team_mentions(response, current_agent_id, agents, already_mentioned) ==
  LET valid == {id \in TagIds(response) :
                  /\ id # current_agent_id
                  /\ id \in DOMAIN agents
                  /\ (current_agent_id \in DOMAIN agents
                        => agents[current_agent_id].cross_team_handoffs)}
  IN ExtractIds(response, 1, {"bang"}, valid, already_mentioned, <<>>)

extract_all_agent_mentions(response, current_agent_id, agents, already_mentioned) ==
  LET valid == {id \in TagIds(response) : id # current_agent_id /\ id \in DOMAIN agents}
  IN ExtractIds(response, 1, {"bracket", "bang"}, valid, already_mentioned, <<>>)

\* the mutant of extract_natural_handoffs that does not look at the ids
\* that are already claimed
extract_natural_unfiltered(response, current_agent_id, agents, already_mentioned) ==
  LET valid == {id \in TagIds(response) : id # current_agent_id /\ id \in DOMAIN agents}
  IN ExtractIds(response, 1, {"natural"}, valid, {}, <<>>)

extract_natural_handoffs(response, current_agent_id, agents, already_mentioned) ==
  LET valid == {id \in TagIds(response) : id # current_agent_id /\ id \in DOMAIN agents}
  IN ExtractIds(response, 1, {"natural"}, valid, already_mentioned, <<>>)

\* the mentions of a response recorded in a team conversation
\* (processor.rs, team path): teammate, then cross-team, then natural
TeamMentions(response, agent_id, team_id, teams, agents) ==
  LET tm == IF team_id # NoTeam
            THEN extract_teammate_mentions(response, agent_id, team_id, teams, agents)
            ELSE <<>>
      ct == extract_cross_team_mentions(response, agent_id, agents, SeqToSet(tm))
      nt == extract_natural_handoffs(response, agent_id, agents,
                                     SeqToSet(tm) \cup SeqToSet(ct))
  IN tm \o ct \o nt

\* the mentions of a response outside any team context (ad-hoc path)
AdHocMentions(response, agent_id, agents) ==
  LET br == extract_all_agent_mentions(response, agent_id, agents, {})
      nt == extract_natural_handoffs(response, agent_id, agents, SeqToSet(br))
  IN br \o nt

(***************************************************************************)
(* The text complete_conversation makes of the recorded steps.  A text is  *)
(* a sequence of tokens: the directive tags of the responses, the label    *)
(* "@id: " at the head of a block, the separator between two blocks, the   *)
(* heading of a section of the transcript.                                 *)
(***************************************************************************)
Label(id) == [form |-> "label", id |-> id]
Separator == [form |-> "separator", id |-> NoAgent]
Heading(id) == [form |-> "heading", id |-> id]

\* the blocks "@id: text" of the steps from the i-th on, joined by the separator
RECURSIVE Blocks(_, _)
Blocks(responses, i) ==
  IF i > Len(responses) THEN <<>>
  ELSE (IF i > 1 THEN <<Separator>> ELSE <<>>)
         \o <<Label(responses[i].agent_id)>> \o responses[i].response
         \o Blocks(responses, i + 1)

\* the steps from the last to the first
RECURSIVE Reversed(_)
Reversed(responses) ==
  IF responses = <<>> THEN <<>>
  ELSE Append(Reversed(Tail(responses)), Head(responses))

aggregate_reversed(responses) ==
  IF Len(responses) = 1 THEN responses[1].response ELSE Blocks(Reversed(responses), 1)

\* "Aggregate responses": the only response as it is, or the blocks
aggregate(responses) ==
  IF Len(responses) = 1 THEN responses[1].response ELSE Blocks(responses, 1)

\* the [@id: ...] and [@!id: ...] tags removed from the final response
strip_tags(text) ==
  SelectSeq(text, LAMBDA t : t.form \notin {"bracket", "bang"})

\* the sections of the steps in the saved chat history, each under the
\* heading of its agent (the header and the user message come before them)
RECURSIVE save_chat_history(_, _)
save_chat_history(responses, i) ==
  IF i > Len(responses) THEN <<>>
  ELSE <<Heading(responses[i].agent_id)>> \o responses[i].response
         \o save_chat_history(responses, i + 1)

\* what a call of complete_conversation leaves behind: the reply (keyed by
\* the message id) and, for a team conversation, the transcript.  The runs
\* that audit the replies keep all of it, the others the message id.
Completion(conv_id, conv, detail) ==
  IF detail
  THEN [mid |-> conv.message_id, conv |-> conv_id,
        message |-> strip_tags(aggregate(conv.responses)),
        transcript |-> IF conv.team_context # NoTeam
                       THEN save_chat_history(conv.responses, 1) ELSE <<>>]
  ELSE conv.message_id

\* the reply to a message that was answered outside any conversation
DirectReply(mid, response, detail) ==
  IF detail
  THEN [mid |-> mid, conv |-> NoConv, message |-> response, transcript |-> <<>>]
  ELSE mid

(***************************************************************************)
(* The cooldown store (failover.rs): key "provider:model" -> CooldownEntry. *)
(* All models of the configuration below belong to one provider, so a key  *)
(* is identified with its model.                                           *)
(***************************************************************************)
RECURSIVE Pow(_, _)
Pow(b, e) == IF e = 0 THEN 1 ELSE b * Pow(b, e - 1)

Min(a, b) == IF a <= b THEN a ELSE b
Max(a, b) == IF a >= b THEN a ELSE b

uncapped_cooldown_ms(error_count) ==
  60 * Pow(5, Min(Max(error_count, 1) - 1, 3)) * 1000

calculate_cooldown_ms(error_count) ==
  LET count == Max(error_count, 1)
      exponent == Min(count - 1, 3)
      seconds == 60 * Pow(5, exponent)
  IN Min(seconds, 3600) * 1000

never_in_cooldown(cooldowns, key, t) == FALSE

is_in_cooldown(cooldowns, key, t) ==
  IF key \in DOMAIN cooldowns THEN t < cooldowns[key].until ELSE FALSE

\* the mutant of record_failure: a failure after the window has passed starts
\* the count again
record_failure_restarting(cooldowns, key, t) ==
  LET entry == IF key \in DOMAIN cooldowns /\ t < cooldowns[key].until
               THEN cooldowns[key]
               ELSE [until |-> 0, error_count |-> 0]
      count == entry.error_count + 1
  IN (key :> [until |-> t + calculate_cooldown_ms(count), error_count |-> count])
       @@ cooldowns

record_failure(cooldowns, key, t) ==
  LET entry == IF key \in DOMAIN cooldowns THEN cooldowns[key]
               ELSE [until |-> 0, error_count |-> 0]
      count == entry.error_count + 1
  IN (key :> [until |-> t + calculate_cooldown_ms(count), error_count |-> count])
       @@ cooldowns

keep_cooldown(cooldowns, key) == cooldowns

expire_cooldown(cooldowns, key) ==
  [k \in DOMAIN cooldowns |->
     IF k = key THEN [cooldowns[k] EXCEPT !.until = 0] ELSE cooldowns[k]]

clear_cooldown(cooldowns, key) ==
  [k \in DOMAIN cooldowns \ {key} |-> cooldowns[k]]

\* load_cooldowns and save_cooldowns move the whole map between the file and
\* the caller's memory
load_cooldowns(file) == file
save_cooldowns(cooldowns) == cooldowns

Models == {"m1", "m2", "m3"}

\* the models of the agents that invoke: a has two fallbacks, b has none,
\* c lists its own primary model again as its last fallback
Callers == {"a", "b", "c"}

FailoverAgents ==
  [c \in Callers |->
     CASE c = "a" -> [model |-> "m1", fallbacks |-> <<"m2", "m3">>]
       [] c = "b" -> [model |-> "m3", fallbacks |-> <<>>]
       [] OTHER   -> [model |-> "m2", fallbacks |-> <<"m1", "m2">>]]

\* the candidates of a call, in the order they are considered
Candidates(c) == <<FailoverAgents[c].model>> \o FailoverAgents[c].fallbacks

(***************************************************************************)
(* State of the queue processor.                                           *)
(***************************************************************************)
VARIABLES
  incoming,    \* queue/incoming: the set of message files
  processing,  \* queue/processing
  outgoing,    \* queue/outgoing: the bag of the replies written
  convs,       \* the conversation table (in memory): id -> Conversation
  queued,      \* queued_files: names handed to a worker and not yet finished
  senders,     \* agent_senders: the worker ids whose channel exists
  chan,        \* the mpsc channel of each worker: a sequence of file names
  worker,      \* each worker task: its position and its locals
  pollPc,      \* the poll loop: "recover", "sleep" or "dispatch"
  listing,     \* the rest of the tick's listing (file names)
  now,         \* the wall clock, ms
  nextFile,    \* the next fresh file name
  hops,        \* tags the agents have written so far
  crashes,     \* crashes so far
  store,       \* the persisted cooldown store (cooldowns.json)
  call,        \* each caller of invoke_agent_with_failover: position and locals
  fnow,        \* the wall clock of the failover runs, ms
  ticks,       \* clock steps of the failover runs so far
  raw,         \* the raw message handed to the routing resolver
  rules,       \* the route_patterns and route_priority of each agent
  order,       \* the order in which the map of the agents yields them
  routed,      \* what the resolver returned
  settings,    \* the settings file that the resolver's caller reads
  sessions,    \* the session store of one agent (sessions.json)
  flag,        \* whether the agent's reset_flag file exists
  snow,        \* the wall clock of the session runs, ms
  turn,        \* the turns of the agent so far, the last one being the current
  scfg,        \* the agent's configuration, as far as sessions read it
  handoff      \* a response handed to the mention extraction, and what it yields

qvars == <<incoming, processing, outgoing, convs, queued, senders, chan, worker,
           pollPc, listing, now, nextFile, hops, crashes>>

fvars == <<store, call, fnow, ticks>>

rvars == <<raw, rules, order, routed, settings>>

svars == <<sessions, flag, snow, turn, scfg>>

mvars == <<handoff>>

vars == <<qvars, fvars, rvars, svars, mvars>>

WorkerIds == AgentIds \cup {"default"}

NoFile == [name |-> 0, mid |-> 0, text |-> <<>>, agent |-> NoAgent,
           conv |-> NoConv, from |-> NoAgent, ok |-> FALSE]

IdleWorker == [pc |-> "idle", file |-> NoFile, agent |-> NoAgent,
               team |-> NoTeam, done |-> {}, failed |-> FALSE]

\* what a channel adapter may write: a text and whether the JSON is well formed
UserKinds ==
  { [text |-> <<Word("hello")>>, ok |-> TRUE],
    [text |-> <<At("dev"), Word("fix")>>, ok |-> TRUE],
    [text |-> <<>>, ok |-> FALSE] }

\* a message addressed to two agents that share no team
MultiKind == [text |-> <<At("coder"), At("ops"), Word("go")>>, ok |-> TRUE]

\* the workloads of a run: up to MaxUserMsgs single-target messages, or the
\* multi-agent message on its own
Workloads ==
  UNION {[1..n -> UserKinds] : n \in 0..MaxUserMsgs} \cup {<<MultiKind>>}

\* what an agent may answer: no handoff, a teammate tag, a cross-team tag
Responses ==
  { <<>>,
    <<Tag("bracket", "reviewer")>>,
    <<Tag("bang", "ops")>> }

\* "Sorry, I encountered an error processing your request. Please check the
\* queue logs.": a text without a directive tag
Apology == <<>>

\* what invoke_agent_with_failover may return: a response, or the error of
\* a chain whose models all failed or were skipped
Outcomes ==
  {[ok |-> TRUE, response |-> r] : r \in Responses}
    \cup {[ok |-> FALSE, response |-> <<>>]}

apology_with_handoff(result) ==
  IF result.ok THEN result.response ELSE <<Tag("bang", "ops")>>

\* the match on the result of the invocation: the response, or the apology
\* in its place
response_or_apology(result) ==
  IF result.ok THEN result.response ELSE Apology

HopText == <<Word("hop")>>

Names(dir) == {f.name : f \in dir}
FileNamed(dir, n) == CHOOSE f \in dir : f.name = n

\* the files the channel adapters have written, named 1..n in the order of
\* their modification times
UserFiles(kinds) ==
  {[name |-> i, mid |-> i, text |-> kinds[i].text, agent |-> NoAgent,
    conv |-> NoConv, from |-> NoAgent, ok |-> kinds[i].ok] : i \in 1..Len(kinds)}

NoCall == [pc |-> "idle", idx |-> 0, cooldowns |-> << >>, snapshot |-> << >>,
           log |-> <<>>, result |-> "none"]

\* no invocation is under way and the cooldown store is empty
FailoverIdle ==
  /\ store = << >>
  /\ call = [c \in Callers |-> NoCall]
  /\ fnow = 0
  /\ ticks = 0

NotRouted == [agent_id |-> NoAgent, message |-> <<>>, is_team |-> FALSE,
              multi_agents |-> <<>>]

\* settings.json does not exist
MissingFile == [kind |-> "missing"]

\* the routing resolver has not been called
RoutingIdle ==
  /\ raw = <<>>
  /\ rules = << >>
  /\ order = <<>>
  /\ routed = NotRouted
  /\ settings = MissingFile

\* no agent has a session, no turn has begun
SessionIdle ==
  /\ sessions = << >>
  /\ flag = FALSE
  /\ snow = 0
  /\ turn = <<>>
  /\ scfg = << >>

NoHandoff == [pc |-> "idle", response |-> <<>>, agent_id |-> NoAgent,
              team_id |-> NoTeam, mentions |-> <<>>]

\* no response is with the mention extraction
HandoffIdle == handoff = NoHandoff

\* The processor starts with the user messages of this run in the queue;
\* some of them may have been left in processing/ by a run that died.
Init ==
  /\ \E kinds \in Workloads :
       \E left \in SUBSET (1..Len(kinds)) :
         /\ incoming = {f \in UserFiles(kinds) : f.name \notin left}
         /\ processing = {f \in UserFiles(kinds) : f.name \in left}
         /\ nextFile = Len(kinds) + 1
  /\ outgoing = EmptyBag
  /\ convs = << >>
  /\ queued = {}
  /\ senders = {}
  /\ chan = [w \in WorkerIds |-> <<>>]
  /\ worker = [w \in WorkerIds |-> IdleWorker]
  /\ pollPc = "recover"
  /\ listing = <<>>
  /\ now = 0
  /\ hops = 0
  /\ crashes = 0
  /\ FailoverIdle
  /\ RoutingIdle
  /\ SessionIdle
  /\ HandoffIdle

\* the conversations older than the ceiling
TimedOut(cs, t) == {c \in DOMAIN cs : t - cs[c].start_time > CONVERSATION_TIMEOUT_MS}

(***************************************************************************)
(* The environment: the clock and a crash of the process.                  *)
(***************************************************************************)
\* time passes; the only thing that reads the clock is the age of a
\* conversation, so the step is taken while there is one that is still young
AdvanceClock ==
  /\ now < MaxAdvances * ClockStep
  /\ TimedOut(convs, now) # DOMAIN convs
  /\ now' = now + ClockStep
  /\ UNCHANGED <<fvars, rvars, svars, mvars>>
  /\ UNCHANGED <<incoming, processing, outgoing, convs, queued, senders, chan, worker,
                 pollPc, listing, nextFile, hops, crashes>>

\* the process dies and is started again: memory is lost, the directories stay
Crash ==
  /\ crashes < MaxCrashes
  /\ pollPc # "recover"
  /\ crashes' = crashes + 1
  /\ convs' = << >>
  /\ queued' = {}
  /\ senders' = {}
  /\ chan' = [w \in WorkerIds |-> <<>>]
  /\ worker' = [w \in WorkerIds |-> IdleWorker]
  /\ pollPc' = "recover"
  /\ listing' = <<>>
  /\ UNCHANGED <<fvars, rvars, svars, mvars>>
  /\ UNCHANGED <<incoming, processing, outgoing, now, nextFile, hops>>

(***************************************************************************)
(* The poll loop.                                                          *)
(***************************************************************************)
recover_nothing(inc, proc) == [incoming |-> inc, processing |-> proc]

\* the files of processing/ renamed back into incoming/
recover_orphaned_files(inc, proc) == [incoming |-> inc \cup proc, processing |-> {}]

Recover ==
  /\ pollPc = "recover"
  /\ LET r == recover_orphaned_files(incoming, processing)
     IN /\ incoming' = r.incoming
        /\ processing' = r.processing
  /\ pollPc' = "sleep"
  /\ UNCHANGED <<fvars, rvars, svars, mvars>>
  /\ UNCHANGED <<outgoing, convs, queued, senders, chan, worker, listing, now,
                 nextFile, hops, crashes>>

\* the names of the directory sorted by modification time (the creation
\* order of the files: a rename keeps the modification time)
RECURSIVE SortNames(_)
SortNames(S) ==
  IF S = {} THEN <<>>
  ELSE LET m == CHOOSE x \in S : \A y \in S : x <= y
       IN <<m>> \o SortNames(S \ {m})

\* the mutant of list_queue_files: the newest file first
list_newest_first(dir) == Reversed(SortNames(Names(dir)))

list_queue_files(dir) == SortNames(Names(dir))

RemoveNothing(f, S) == f

\* the map without the entries that were removed from it
Restrict(f, S) == [x \in S |-> f[x]]

NoReplies(cs, ids, detail) == EmptyBag

\* the replies complete_conversation writes for a set of conversations
RECURSIVE RepliesOf(_, _, _)
RepliesOf(cs, ids, detail) ==
  IF ids = {} THEN EmptyBag
  ELSE LET c == CHOOSE x \in ids : TRUE
       IN SetToBag({Completion(c, cs[c], detail)}) (+) RepliesOf(cs, ids \ {c}, detail)

\* one tick: the timeout sweep (under the table lock), then the listing
TickWith(detail) ==
  /\ pollPc = "sleep"
  /\ LET gone == TimedOut(convs, now)
     IN /\ convs' = Restrict(convs, DOMAIN convs \ gone)
        /\ outgoing' = outgoing (+) RepliesOf(convs, gone, detail)
  /\ listing' = list_queue_files(incoming)
  /\ pollPc' = IF listing' = <<>> THEN "sleep" ELSE "dispatch"
  /\ UNCHANGED <<fvars, rvars, svars, mvars>>
  /\ UNCHANGED <<incoming, processing, queued, senders, chan, worker, now,
                 nextFile, hops, crashes>>

Tick == TickWith(FALSE)

\* the same in a run that audits the replies
TickAudited == TickWith(TRUE)

peek_agent_id(n, inc, agents, teams) ==
  IF n \in Names(inc) /\ FileNamed(inc, n).ok
  THEN LET f == FileNamed(inc, n)
       IN IF f.agent # NoAgent /\ f.agent \in DOMAIN agents
          THEN f.agent
          ELSE parse_agent_routing(f.text, agents, teams).agent_id
  ELSE "default"

NeverQueued(n, q) == FALSE

\* whether the poll loop skips a listed file: it is in the claimed set
AlreadyQueued(n, q) == n \in q

\* the body of the loop over the listing, for its next file
Dispatch ==
  /\ pollPc = "dispatch"
  /\ listing # <<>>
  /\ LET n == Head(listing)
         target == peek_agent_id(n, incoming, Agents, Teams)
     IN IF AlreadyQueued(n, queued)
        THEN UNCHANGED <<queued, senders, chan>>
        ELSE /\ Len(chan[target]) < ChannelCapacity
             /\ queued' = queued \cup {n}
             /\ senders' = senders \cup {target}
             /\ chan' = [chan EXCEPT ![target] = Append(@, n)]
  /\ listing' = Tail(listing)
  /\ pollPc' = IF listing' = <<>> THEN "sleep" ELSE "dispatch"
  /\ UNCHANGED <<fvars, rvars, svars, mvars>>
  /\ UNCHANGED <<incoming, processing, outgoing, convs, worker, now,
                 nextFile, hops, crashes>>

(***************************************************************************)
(* A worker task: process_message for each file name it receives.          *)
(***************************************************************************)
\* the claim: rename incoming/<n> to processing/<n> succeeds iff the file is there
RenameOk(n, inc) == n \in Names(inc)

MoveBackCopy(n, inc, proc) ==
  IF n \in Names(proc)
  THEN [incoming |-> inc \cup {FileNamed(proc, n)}, processing |-> proc]
  ELSE [incoming |-> inc, processing |-> proc]

\* the mutant of MoveBack for the items that do not parse: the processing
\* copy stays where it is
MoveBackNever(n, inc, proc) == [incoming |-> inc, processing |-> proc]

\* process_message's error path: the processing copy, if there is one, is
\* renamed back into incoming
MoveBack(n, inc, proc) ==
  IF n \in Names(proc)
  THEN [incoming |-> inc \cup {FileNamed(proc, n)},
        processing |-> proc \ {FileNamed(proc, n)}]
  ELSE [incoming |-> inc, processing |-> proc]

\* the routing of a parsed message (processor.rs, "Route message to agent")
RouteOf(f, agents, teams) ==
  IF f.agent # NoAgent /\ f.agent \in DOMAIN agents
  THEN [agent_id |-> f.agent, message |-> f.text, is_team |-> FALSE, multi_agents |-> <<>>]
  ELSE parse_agent_routing(f.text, agents, teams)

\* the fallbacks to "default" and then to the first agent of the map, whose
\* iteration order is arbitrary
ResolveAgent(agent_id, agents) ==
  IF agent_id \in DOMAIN agents THEN {agent_id}
  ELSE IF "default" \in DOMAIN agents THEN {"default"}
  ELSE DOMAIN agents

\* the team context of a message (processor.rs, "Determine team context")
TeamContextOf(f, agent_id, is_team_routed, cs, teams) ==
  IF f.conv # NoConv
  THEN IF f.conv \in DOMAIN cs THEN {cs[f.conv].team_context} ELSE {NoTeam}
  ELSE LET led == {t \in DOMAIN teams : /\ teams[t].leader_agent = agent_id
                                        /\ agent_id \in SeqToSet(teams[t].agents)}
       IN IF is_team_routed /\ led # {} THEN led
          ELSE find_team_for_agent(agent_id, teams)

\* more names than the files of a run can have
NameSpace == MaxUserMsgs + MaxHops + 2 * (MaxCrashes + 1) + 1

\* the id of the conversation created while file f is processed
\* (<message id>_<ms since the epoch> in the code: fresh at the clock's
\* resolution).  Here it is the name of the file that caused the creation,
\* in the name space of the run of the process that created it, so that no
\* id of an earlier run comes back after a restart.
ConvId(f) == crashes * NameSpace + f.name

create_conversation(message_id, team_context, t) ==
  [message_id |-> message_id, pending |-> 1, responses |-> <<>>,
   total_messages |-> 0, max_messages |-> MAX_CONVERSATION_MESSAGES,
   team_context |-> team_context, start_time |-> t]

NoHopFiles(targets, cid, from, f, first) == {}

\* enqueue_internal_message for each target: fresh files in incoming
HopFiles(targets, cid, from, f, first) ==
  {[name |-> first + i - 1, mid |-> f.mid, text |-> HopText, agent |-> targets[i],
    conv |-> cid, from |-> from, ok |-> TRUE] : i \in 1..Len(targets)}

\* what enqueue_internal_message leaves in incoming: the result of its
\* write is ignored, so on a file system that fails a file may be missing
WrittenFiles(files, lossy) == IF lossy THEN SUBSET files ELSE {files}

\* the mutant of Fanout that leaves pending as create_conversation set it
FanoutOneBranch(f, targets, lossy) ==
  LET conv == create_conversation(f.mid, NoTeam, now)
      files == HopFiles(targets, ConvId(f), "dispatch", f, nextFile)
  IN /\ convs' = (ConvId(f) :> conv) @@ convs
     /\ \E written \in WrittenFiles(files, lossy) :
          incoming' = (incoming \ {f}) \cup written
     /\ nextFile' = nextFile + Len(targets)

\* multi-agent dispatch: one conversation with a branch per target and one
\* internal hop per target; no agent is invoked for the message itself
Fanout(f, targets, lossy) ==
  LET conv == [create_conversation(f.mid, NoTeam, now) EXCEPT !.pending = Len(targets)]
      files == HopFiles(targets, ConvId(f), "dispatch", f, nextFile)
  IN /\ convs' = (ConvId(f) :> conv) @@ convs
     /\ \E written \in WrittenFiles(files, lossy) :
          incoming' = (incoming \ {f}) \cup written
     /\ nextFile' = nextFile + Len(targets)

\* The worker takes the next name off its channel and starts process_message:
\* it claims the file, parses it, routes it and starts the agent.  A claim
\* that fails, or a file that does not parse, ends the processing with the
\* processing copy renamed back; a multi-agent dispatch ends it with the
\* processing copy removed.  The name then leaves the claimed set.
StartWith(w, lossy) ==
  /\ w \in senders
  /\ worker[w].pc = "idle"
  /\ chan[w] # <<>>
  /\ LET n == Head(chan[w])
     IN /\ chan' = [chan EXCEPT ![w] = Tail(@)]
        /\ IF ~RenameOk(n, incoming)
           THEN LET b == MoveBack(n, incoming, processing)
                IN /\ incoming' = b.incoming
                   /\ processing' = b.processing
                   /\ queued' = queued \ {n}
                   /\ UNCHANGED <<worker, convs, nextFile>>
           ELSE LET f == FileNamed(incoming, n)
                    r == RouteOf(f, Agents, Teams)
                IN IF ~f.ok
                   THEN LET b == MoveBack(n, incoming \ {f}, processing \cup {f})
                        IN /\ incoming' = b.incoming
                           /\ processing' = b.processing
                           /\ queued' = queued \ {n}
                           /\ UNCHANGED <<worker, convs, nextFile>>
                   ELSE IF f.conv = NoConv /\ Len(r.multi_agents) > 1
                   THEN /\ Fanout(f, r.multi_agents, lossy)
                        /\ queued' = queued \ {n}
                        /\ UNCHANGED <<worker, processing>>
                   ELSE /\ incoming' = incoming \ {f}
                        /\ processing' = processing \cup {f}
                        /\ \E a \in ResolveAgent(r.agent_id, Agents) :
                             \E t \in TeamContextOf(f, a, r.is_team, convs, Teams) :
                               worker' = [worker EXCEPT ![w] = [IdleWorker EXCEPT
                                            !.pc = "invoke", !.file = f,
                                            !.agent = a, !.team = t]]
                        /\ UNCHANGED <<queued, convs, nextFile>>
  /\ UNCHANGED <<fvars, rvars, svars, mvars>>
  /\ UNCHANGED <<outgoing, senders, pollPc, listing, now, hops, crashes>>

Start(w) == StartWith(w, FALSE)

\* the same on a file system whose writes may fail
StartLossy(w) == StartWith(w, TRUE)

EnqueuedAlways(conv, mentions) == mentions

\* the mentions that are enqueued for a response: none once the cap is reached
Enqueued(conv, mentions) ==
  IF mentions # <<>> /\ conv.total_messages + 1 < conv.max_messages
  THEN mentions ELSE <<>>

ChainStep(agent_id, response) == [agent_id |-> agent_id, response |-> response]

RecordWithoutHops(conv, agent_id, response, mentions) ==
  [conv EXCEPT !.responses = Append(@, ChainStep(agent_id, response)),
               !.total_messages = @ + 1,
               !.pending = @ - 1]

\* the mutant of RecordResponse that leaves the finishing branch in pending
RecordKeepingBranch(conv, agent_id, response, mentions) ==
  [conv EXCEPT !.responses = Append(@, ChainStep(agent_id, response)),
               !.total_messages = @ + 1,
               !.pending = @ + Len(Enqueued(conv, mentions))]

\* recording a branch's response in its conversation
RecordResponse(conv, agent_id, response, mentions) ==
  [conv EXCEPT !.responses = Append(@, ChainStep(agent_id, response)),
               !.total_messages = @ + 1,
               !.pending = @ + Len(Enqueued(conv, mentions)) - 1]

ShouldCompleteNever(conv) == FALSE

\* the conversation is complete when no branch is pending
ShouldComplete(conv) == conv.pending = 0

\* the critical section of a finishing branch: get or create the
\* conversation, record the response, enqueue the hops, take the branch off
\* pending, and remove the conversation from the table when it is complete
Record(w, resp, failed, adhoc, lossy) ==
  LET f == worker[w].file
      a == worker[w].agent
      existing == f.conv # NoConv /\ f.conv \in DOMAIN convs
      cid == IF existing THEN f.conv ELSE ConvId(f)
      base == IF existing THEN convs[cid]
              ELSE create_conversation(f.mid, worker[w].team, now)
      mentions == IF adhoc THEN AdHocMentions(resp, a, Agents)
                  ELSE TeamMentions(resp, a, base.team_context, Teams, Agents)
      after == RecordResponse(base, a, resp, mentions)
      enq == Enqueued(base, mentions)
      files == HopFiles(enq, cid, a, f, nextFile)
  IN /\ \E written \in WrittenFiles(files, lossy) : incoming' = incoming \cup written
     /\ nextFile' = nextFile + Len(enq)
     /\ IF ShouldComplete(after)
        THEN /\ convs' = Restrict(convs, DOMAIN convs \ {cid})
             /\ worker' = [worker EXCEPT ![w].pc = "complete",
                                         ![w].failed = failed,
                                         ![w].done = {[id |-> cid, conv |-> after]}]
        ELSE /\ convs' = (cid :> after) @@ convs
             /\ worker' = [worker EXCEPT ![w].pc = "ack", ![w].failed = failed]
     /\ UNCHANGED outgoing

\* the agent invocation returns one of `results` (a response, or an error
\* that the apology replaces) and the response is handled
FinishWith(w, results, lossy, detail) ==
  /\ worker[w].pc = "invoke"
  /\ \E result \in results :
       LET resp == response_or_apology(result)
           f == worker[w].file
           a == worker[w].agent
       IN /\ hops + Len(resp) <= MaxHops
          /\ hops' = hops + Len(resp)
          /\ IF worker[w].team = NoTeam
             THEN IF AdHocMentions(resp, a, Agents) # <<>> \/ f.conv # NoConv
                  THEN Record(w, resp, ~result.ok, TRUE, lossy)
                  ELSE /\ outgoing' = outgoing (+) SetToBag({DirectReply(f.mid, resp, detail)})
                       /\ worker' = [worker EXCEPT ![w].pc = "ack",
                                                   ![w].failed = ~result.ok]
                       /\ UNCHANGED <<incoming, convs, nextFile>>
             ELSE Record(w, resp, ~result.ok, FALSE, lossy)
  /\ UNCHANGED <<fvars, rvars, svars, mvars>>
  /\ UNCHANGED <<processing, queued, senders, chan, pollPc, listing, now,
                 crashes>>

\* the invocation returns a response.  (A failed invocation is handled as a
\* response without a tag is; FinishFailed tells the two apart.)
Finish(w) == FinishWith(w, {r \in Outcomes : r.ok}, FALSE, FALSE)

\* the invocation fails: every model of the chain failed or was skipped
FinishFailed(w) == FinishWith(w, {r \in Outcomes : ~r.ok}, FALSE, FALSE)

\* the invocation returns a response on a file system whose writes may fail
FinishLossy(w) == FinishWith(w, {r \in Outcomes : r.ok}, TRUE, FALSE)

\* the invocation returns a response in a run that audits the replies
FinishAudited(w) == FinishWith(w, {r \in Outcomes : r.ok}, FALSE, TRUE)

\* the end of process_message: the processing copy is removed and the name
\* leaves the claimed set
Finished(w) ==
  /\ processing' = processing \ {worker[w].file}
  /\ queued' = queued \ {worker[w].file.name}
  /\ worker' = [worker EXCEPT ![w] = IdleWorker]

\* complete_conversation, after the table lock was dropped, and the end of
\* process_message
CompleteWith(w, detail) ==
  /\ worker[w].pc = "complete"
  /\ \E d \in worker[w].done :
       outgoing' = outgoing (+) SetToBag({Completion(d.id, d.conv, detail)})
  /\ Finished(w)
  /\ UNCHANGED <<fvars, rvars, svars, mvars>>
  /\ UNCHANGED <<incoming, convs, senders, chan, pollPc, listing,
                 now, nextFile, hops, crashes>>

Complete(w) == CompleteWith(w, FALSE)

\* the same in a run that audits the replies
CompleteAudited(w) == CompleteWith(w, TRUE)

\* the end of process_message for a branch that completed no conversation
Ack(w) ==
  /\ worker[w].pc = "ack"
  /\ Finished(w)
  /\ UNCHANGED <<fvars, rvars, svars, mvars>>
  /\ UNCHANGED <<incoming, outgoing, convs, senders, chan, pollPc, listing,
                 now, nextFile, hops, crashes>>

WorkerStep(w) ==
  \/ Start(w)
  \/ Finish(w)
  \/ Complete(w)
  \/ Ack(w)

Next ==
  \/ AdvanceClock
  \/ Crash
  \/ Recover
  \/ Tick
  \/ Dispatch
  \/ \E w \in WorkerIds : WorkerStep(w)

Spec == Init /\ [][Next]_vars

\* the tokio scheduler: the poll loop keeps ticking and every worker task
\* that can take a step eventually takes one; agent invocations terminate
Fairness ==
  /\ WF_vars(Recover)
  /\ WF_vars(Tick)
  /\ WF_vars(Dispatch)
  /\ \A w \in WorkerIds : WF_vars(WorkerStep(w))

\* the steps of the runs that are checked for progress: a run has a crash
\* or a wait of half an hour, not both
NextFair ==
  \/ crashes = 0 /\ AdvanceClock
  \/ now = 0 /\ Crash
  \/ Recover
  \/ Tick
  \/ Dispatch
  \/ \E w \in WorkerIds : WorkerStep(w)

SpecFair == Init /\ [][NextFair]_vars /\ Fairness

\* the runs of SpecFair that start with a message whose JSON does not parse
InitPoison == Init /\ \E f \in incoming \cup processing : ~f.ok

SpecPoison == InitPoison /\ [][NextFair]_vars /\ Fairness

\* the processor with invocations that fail
NextFailing ==
  \/ Next
  \/ \E w \in WorkerIds : FinishFailed(w)

SpecFailing == Init /\ [][NextFailing]_vars

\* an agent answers with a line that addresses ops in plain words
\* ("@ops: ...", no brackets)
FinishNatural(w) ==
  FinishWith(w, {[ok |-> TRUE, response |-> <<Tag("natural", "ops")>>]}, FALSE, FALSE)

NextNatural ==
  \/ Recover
  \/ Tick
  \/ Dispatch
  \/ \E w \in WorkerIds : WorkerStep(w)
  \/ \E w \in WorkerIds : FinishNatural(w)

SpecNatural == Init /\ [][NextNatural]_vars

\* the processor in a run that audits the replies: what each call of
\* complete_conversation wrote, and for which conversation
NextAudit ==
  \/ AdvanceClock
  \/ Crash
  \/ Recover
  \/ TickAudited
  \/ Dispatch
  \/ \E w \in WorkerIds : Start(w) \/ FinishAudited(w) \/ CompleteAudited(w) \/ Ack(w)

SpecAudit == Init /\ [][NextAudit]_vars

\* a long exchange between the leader and its teammate: the first n steps
RECURSIVE PingPong(_)
PingPong(n) ==
  IF n = 0 THEN <<>>
  ELSE Append(PingPong(n - 1),
              IF n % 2 = 1 THEN ChainStep("coder", <<Tag("bracket", "reviewer")>>)
              ELSE ChainStep("reviewer", <<Tag("bracket", "coder")>>))

\* The processor late in a long conversation: the conversation of message 1
\* has recorded between MAX_CONVERSATION_MESSAGES - CapMargin and
\* MAX_CONVERSATION_MESSAGES responses, and the hops of its pending branches
\* are in the queue.
InitCap ==
  /\ \E n \in (MAX_CONVERSATION_MESSAGES - CapMargin)..MAX_CONVERSATION_MESSAGES :
       \E p \in 1..2 : \E team \in {NoTeam, "dev"} :
         /\ convs = (1 :> [create_conversation(1, team, 0) EXCEPT
                             !.pending = p, !.total_messages = n,
                             !.responses = PingPong(n)])
         /\ incoming = HopFiles(SubSeq(<<"coder", "ops">>, 1, p), 1, "reviewer",
                                [NoFile EXCEPT !.mid = 1], 2)
         /\ nextFile = p + 2
  /\ processing = {}
  /\ outgoing = EmptyBag
  /\ queued = {}
  /\ senders = {}
  /\ chan = [w \in WorkerIds |-> <<>>]
  /\ worker = [w \in WorkerIds |-> IdleWorker]
  /\ pollPc = "sleep"
  /\ listing = <<>>
  /\ now = 0
  /\ hops = 0
  /\ crashes = 0
  /\ FailoverIdle
  /\ RoutingIdle
  /\ SessionIdle
  /\ HandoffIdle

SpecCap == InitCap /\ [][Next]_vars

(***************************************************************************)
(* Mention cycles.  Every agent may answer with tags for all the agents,   *)
(* again and again; the clock stands still, so the timeout sweep removes   *)
(* nothing, and the process does not crash.                                *)
(***************************************************************************)
\* what an agent may answer in a cycle: no handoff, or a tag for every agent
CycleResponses ==
  {<<>>, <<Tag("bracket", "reviewer"), Tag("bracket", "coder"), Tag("bang", "ops")>>}

\* the invocation returns; the number of tags written in the run is open
FinishCycling(w) ==
  /\ worker[w].pc = "invoke"
  /\ \E resp \in CycleResponses :
       LET f == worker[w].file
           a == worker[w].agent
       IN /\ hops' = hops + Len(resp)
          /\ IF worker[w].team = NoTeam
             THEN IF AdHocMentions(resp, a, Agents) # <<>> \/ f.conv # NoConv
                  THEN Record(w, resp, FALSE, TRUE, FALSE)
                  ELSE /\ outgoing' = outgoing (+) SetToBag({DirectReply(f.mid, resp, FALSE)})
                       /\ worker' = [worker EXCEPT ![w].pc = "ack", ![w].failed = FALSE]
                       /\ UNCHANGED <<incoming, convs, nextFile>>
             ELSE Record(w, resp, FALSE, FALSE, FALSE)
  /\ UNCHANGED <<fvars, rvars, svars, mvars>>
  /\ UNCHANGED <<processing, queued, senders, chan, pollPc, listing, now,
                 crashes>>

\* the conversation of message 1 has recorded MAX_CONVERSATION_MESSAGES -
\* CycleMargin responses and its one pending hop is in the queue
InitCycle ==
  /\ \E team \in {NoTeam, "dev"} :
       convs = (1 :> [create_conversation(1, team, 0) EXCEPT
                        !.total_messages = MAX_CONVERSATION_MESSAGES - CycleMargin,
                        !.responses = PingPong(MAX_CONVERSATION_MESSAGES - CycleMargin)])
  /\ incoming = HopFiles(<<"coder">>, 1, "reviewer", [NoFile EXCEPT !.mid = 1], 2)
  /\ nextFile = 3
  /\ processing = {}
  /\ outgoing = EmptyBag
  /\ queued = {}
  /\ senders = {}
  /\ chan = [w \in WorkerIds |-> <<>>]
  /\ worker = [w \in WorkerIds |-> IdleWorker]
  /\ pollPc = "sleep"
  /\ listing = <<>>
  /\ now = 0
  /\ hops = 0
  /\ crashes = 0
  /\ FailoverIdle
  /\ RoutingIdle
  /\ SessionIdle
  /\ HandoffIdle

CycleStep(w) ==
  \/ Start(w)
  \/ FinishCycling(w)
  \/ Complete(w)
  \/ Ack(w)

NextCycle ==
  \/ Tick
  \/ Dispatch
  \/ \E w \in WorkerIds : CycleStep(w)

\* the poll loop keeps ticking, every worker task is scheduled and every
\* invocation returns
FairnessCycle ==
  /\ WF_vars(Tick)
  /\ WF_vars(Dispatch)
  /\ \A w \in WorkerIds : WF_vars(CycleStep(w))

SpecCycle == InitCycle /\ [][NextCycle]_vars /\ FairnessCycle

\* time passes for as long as a conversation is young
ClockRuns ==
  /\ TimedOut(convs, now) # DOMAIN convs
  /\ now' = now + ClockStep
  /\ UNCHANGED <<fvars, rvars, svars, mvars>>
  /\ UNCHANGED <<incoming, processing, outgoing, convs, queued, senders, chan, worker,
                 pollPc, listing, nextFile, hops, crashes>>

\* one uninterrupted run of the processor in which the hop files may fail
\* to be written
NextHang ==
  \/ ClockRuns
  \/ Recover
  \/ Tick
  \/ Dispatch
  \/ \E w \in WorkerIds : StartLossy(w) \/ FinishLossy(w) \/ Complete(w) \/ Ack(w)

\* the scheduler of that run: time passes, the poll loop keeps ticking and
\* every worker task is scheduled, but an agent invocation need not return
FairnessHang ==
  /\ WF_vars(ClockRuns)
  /\ WF_vars(Recover)
  /\ WF_vars(Tick)
  /\ WF_vars(Dispatch)
  /\ \A w \in WorkerIds : WF_vars(StartLossy(w) \/ Complete(w) \/ Ack(w))

SpecHang == Init /\ [][NextHang]_vars /\ FairnessHang

\* messages addressed to several agents that do not all share a team
DispatchKinds ==
  { [text |-> <<At("coder"), At("ops"), Word("go")>>, ok |-> TRUE],
    [text |-> <<At("ops"), At("reviewer"), At("coder"), Word("go")>>, ok |-> TRUE] }

\* the processor starts with one such message in the queue, or in
\* processing/ where a run that died left it
InitDispatch ==
  /\ \E kind \in DispatchKinds : \E left \in SUBSET {1} :
       /\ incoming = {f \in UserFiles(<<kind>>) : f.name \notin left}
       /\ processing = {f \in UserFiles(<<kind>>) : f.name \in left}
  /\ nextFile = 2
  /\ outgoing = EmptyBag
  /\ convs = << >>
  /\ queued = {}
  /\ senders = {}
  /\ chan = [w \in WorkerIds |-> <<>>]
  /\ worker = [w \in WorkerIds |-> IdleWorker]
  /\ pollPc = "recover"
  /\ listing = <<>>
  /\ now = 0
  /\ hops = 0
  /\ crashes = 0
  /\ FailoverIdle
  /\ RoutingIdle
  /\ SessionIdle
  /\ HandoffIdle

\* the audited run with a crash or a wait of half an hour, not both
NextDispatch ==
  \/ crashes = 0 /\ AdvanceClock
  \/ now = 0 /\ Crash
  \/ Recover
  \/ TickAudited
  \/ Dispatch
  \/ \E w \in WorkerIds : Start(w) \/ FinishAudited(w) \/ CompleteAudited(w) \/ Ack(w)

SpecDispatch == InitDispatch /\ [][NextDispatch]_vars

(***************************************************************************)
(* The processor with a backlog for one agent.  The queue holds a message  *)
(* for reviewer and one for ops, then more messages for coder than the     *)
(* channel of its worker has room for, then another message for ops; the   *)
(* invocation of coder does not return within the run.                     *)
(***************************************************************************)
BacklogKinds ==
  [i \in 1..(ChannelCapacity + 5) |->
     IF i = 1 THEN [text |-> <<At("reviewer"), Word("go")>>, ok |-> TRUE]
     ELSE IF i \in {2, ChannelCapacity + 5}
     THEN [text |-> <<At("ops"), Word("go")>>, ok |-> TRUE]
     ELSE [text |-> <<At("coder"), Word("fix")>>, ok |-> TRUE]]

InitBacklog ==
  /\ incoming = UserFiles(BacklogKinds)
  /\ processing = {}
  /\ nextFile = Len(BacklogKinds) + 1
  /\ outgoing = EmptyBag
  /\ convs = << >>
  /\ queued = {}
  /\ senders = {}
  /\ chan = [w \in WorkerIds |-> <<>>]
  /\ worker = [w \in WorkerIds |-> IdleWorker]
  /\ pollPc = "recover"
  /\ listing = <<>>
  /\ now = 0
  /\ hops = 0
  /\ crashes = 0
  /\ FailoverIdle
  /\ RoutingIdle
  /\ SessionIdle
  /\ HandoffIdle

NextBacklog ==
  \/ Recover
  \/ Tick
  \/ Dispatch
  \/ \E w \in WorkerIds : Start(w)
  \/ \E w \in WorkerIds \ {"coder"} : Finish(w) \/ Complete(w) \/ Ack(w)

SpecBacklog == InitBacklog /\ [][NextBacklog]_vars

(***************************************************************************)
(* invoke_agent_with_failover against the cooldown store.                  *)
(***************************************************************************)
\* the queue is empty and the processor is not running
QueueIdle ==
  /\ incoming = {} /\ processing = {} /\ outgoing = EmptyBag
  /\ convs = << >> /\ queued = {} /\ senders = {}
  /\ chan = [w \in WorkerIds |-> <<>>]
  /\ worker = [w \in WorkerIds |-> IdleWorker]
  /\ pollPc = "recover" /\ listing = <<>>
  /\ now = 0 /\ nextFile = 1 /\ hops = 0 /\ crashes = 0

\* a store left by earlier runs: the keys of S failed n times in a row, the
\* last time at `failed`
StoreAfter(S, n, failed) ==
  [k \in S |-> [until |-> failed + calculate_cooldown_ms(n), error_count |-> n]]

FailoverInit ==
  /\ QueueIdle
  /\ RoutingIdle
  /\ SessionIdle
  /\ HandoffIdle
  /\ fnow = StartTime
  /\ ticks = 0
  /\ call = [c \in Callers |-> NoCall]
  /\ \E S \in SUBSET Models : \E n \in 1..MaxErrors : \E failed \in {0, StartTime} :
       store = StoreAfter(S, n, failed)

\* time passes
FTick ==
  /\ ticks < MaxTicks
  /\ ticks' = ticks + 1
  /\ fnow' = fnow + TickMs
  /\ UNCHANGED <<store, call>>
  /\ UNCHANGED <<qvars, rvars, svars, mvars>>

\* the call starts: the store is loaded once
FBegin(c) ==
  /\ call[c].pc = "idle"
  /\ Cardinality({d \in Callers : call[d].pc # "idle"}) < MaxCallers
  /\ call' = [call EXCEPT ![c] = [pc |-> "check", idx |-> 1,
                                  cooldowns |-> load_cooldowns(store),
                                  snapshot |-> load_cooldowns(store),
                                  log |-> <<>>, result |-> "none"]]
  /\ UNCHANGED <<store, fnow, ticks>>
  /\ UNCHANGED <<qvars, rvars, svars, mvars>>

\* the next candidate is considered: skipped when it is cooling down in the
\* caller's copy of the store, invoked otherwise; with no candidate left the
\* call returns the aggregate failure
FCheck(c) ==
  /\ call[c].pc = "check"
  /\ LET cands == Candidates(c)
         i == call[c].idx
     IN IF i > Len(cands)
        THEN call' = [call EXCEPT ![c].pc = "done", ![c].result = "err"]
        ELSE IF is_in_cooldown(call[c].cooldowns, cands[i], fnow)
        THEN call' = [call EXCEPT ![c].idx = i + 1,
                        ![c].log = Append(@, [key |-> cands[i], what |-> "skipped", at |-> 0])]
        ELSE call' = [call EXCEPT ![c].pc = "invoking",
                        ![c].log = Append(@, [key |-> cands[i], what |-> "invoking", at |-> 0])]
  /\ UNCHANGED <<store, fnow, ticks>>
  /\ UNCHANGED <<qvars, rvars, svars, mvars>>

\* invoke_agent returns: a success clears the candidate's key and ends the
\* call, a failure is recorded and the next candidate is considered; in both
\* cases the caller's copy of the store is saved
FReturn(c) ==
  /\ call[c].pc = "invoking"
  /\ LET key == Candidates(c)[call[c].idx]
         n == Len(call[c].log)
     IN \E ok \in BOOLEAN :
          IF ok
          THEN LET cd == clear_cooldown(call[c].cooldowns, key)
               IN /\ store' = save_cooldowns(cd)
                  /\ call' = [call EXCEPT ![c].pc = "done", ![c].result = "ok",
                                ![c].cooldowns = cd,
                                ![c].log[n] = [key |-> key, what |-> "ok", at |-> 0]]
          ELSE LET cd == record_failure(call[c].cooldowns, key, fnow)
               IN /\ store' = save_cooldowns(cd)
                  /\ call' = [call EXCEPT ![c].pc = "check", ![c].idx = @ + 1,
                                ![c].cooldowns = cd,
                                ![c].log[n] = [key |-> key, what |-> "failed", at |-> fnow]]
  /\ UNCHANGED <<fnow, ticks>>
  /\ UNCHANGED <<qvars, rvars, svars, mvars>>

FailoverNext ==
  \/ FTick
  \/ \E c \in Callers : FBegin(c)
  \/ \E c \in Callers : FCheck(c)
  \/ \E c \in Callers : FReturn(c)

SpecFailover == FailoverInit /\ [][FailoverNext]_vars

(***************************************************************************)
(* The store as a file.  save_cooldowns and save_sessions hand the whole   *)
(* text to std::fs::write, which opens the file truncating it and then     *)
(* writes the bytes, in one piece or in several; load_cooldowns and        *)
(* load_sessions read what the file holds at that moment and take an       *)
(* empty map for a text that does not parse.  The text of a map is an      *)
(* opening brace, one token for each entry, and a closing brace.           *)
(***************************************************************************)
Brace(b) == [key |-> b, entry |-> << >>]

to_string_pretty(cooldowns) ==
  LET keys == SetToSeq(DOMAIN cooldowns)
  IN  <<Brace("{")>> \o [i \in 1..Len(keys) |->
                           [key |-> keys[i], entry |-> cooldowns[keys[i]]]]
      \o <<Brace("}")>>

\* serde_json::from_str(..).unwrap_or_default()
from_str_or_default(text) ==
  IF /\ Len(text) >= 2
     /\ text[1] = Brace("{")
     /\ text[Len(text)] = Brace("}")
  THEN [k \in {text[i].key : i \in 2..(Len(text) - 1)} |->
          text[CHOOSE i \in 2..(Len(text) - 1) : text[i].key = k].entry]
  ELSE << >>

FileInit ==
  /\ QueueIdle
  /\ RoutingIdle
  /\ SessionIdle
  /\ HandoffIdle
  /\ fnow = StartTime
  /\ ticks = 0
  /\ call = [c \in Callers |-> NoCall]
  /\ \E S \in SUBSET Models : \E n \in 1..MaxErrors :
       store = to_string_pretty(StoreAfter(S, n, 0))

\* a call starts: it reads the file
FileLoad(c) ==
  /\ call[c].pc = "idle"
  /\ Cardinality({d \in Callers : call[d].pc # "idle"}) < MaxCallers
  /\ call' = [call EXCEPT ![c] = [NoCall EXCEPT
                                    !.pc = "invoking",
                                    !.cooldowns = from_str_or_default(store),
                                    !.snapshot = from_str_or_default(store)]]
  /\ UNCHANGED <<store, fnow, ticks>>
  /\ UNCHANGED <<qvars, rvars, svars, mvars>>

\* invoke_agent returns to a call and the call saves its map: the file is
\* opened for writing and is empty; `replaced` is the map the file held
FileOpen(c) ==
  /\ call[c].pc = "invoking"
  /\ \A d \in Callers : call[d].pc # "saving"
  /\ LET key == Candidates(c)[1]
     IN  \E ok \in BOOLEAN :
           call' = [call EXCEPT ![c] =
                      [replaced |-> from_str_or_default(store)] @@
                      [@ EXCEPT !.pc = "saving",
                                !.cooldowns = IF ok THEN clear_cooldown(@, key)
                                              ELSE record_failure(@, key, fnow),
                                !.result = IF ok THEN "ok" ELSE "err"]]
  /\ store' = <<>>
  /\ UNCHANGED <<fnow, ticks>>
  /\ UNCHANGED <<qvars, rvars, svars, mvars>>

\* the next piece of the text reaches the file
FileWrite(c) ==
  /\ call[c].pc = "saving"
  /\ LET text == to_string_pretty(call[c].cooldowns)
     IN  \E n \in (Len(store) + 1)..Len(text) :
           /\ store' = SubSeq(text, 1, n)
           /\ call' = [call EXCEPT ![c].pc = IF n = Len(text) THEN "done" ELSE @]
  /\ UNCHANGED <<fnow, ticks>>
  /\ UNCHANGED <<qvars, rvars, svars, mvars>>

FileNext ==
  \/ \E c \in Callers : FileLoad(c)
  \/ \E c \in Callers : FileOpen(c)
  \/ \E c \in Callers : FileWrite(c)

SpecFile == FileInit /\ [][FileNext]_vars

(***************************************************************************)
(* The routing resolver on its own.  The settings are chosen so that the   *)
(* lookups of a prefix collide: the agent ops has the display name of the  *)
(* team id dev, the agent qa has the display name of the team dev, and one *)
(* team has the id of the agent ops.  The teams are dev (coder, qa; led by *)
(* coder) and ops (qa alone).                                              *)
(***************************************************************************)
RoutingAgentIds == {"coder", "ops", "qa"}

RoutingTeams ==
  [t \in {"dev", "ops"} |->
     IF t = "dev"
     THEN [name |-> "Core", agents |-> <<"coder", "qa">>, leader_agent |-> "coder"]
     ELSE [name |-> "Platform", agents |-> <<"qa">>, leader_agent |-> "qa"]]

\* the agents of the settings, with the given routing rules
RoutingAgents(rs) ==
  [a \in RoutingAgentIds |->
     [name |-> CASE a = "coder" -> "Coder"
                 [] a = "ops" -> "Dev"
                 [] OTHER -> "Core",
      cross_team_handoffs |-> FALSE,
      route_patterns |-> rs[a].route_patterns,
      route_priority |-> rs[a].route_priority]]

Rule(patterns, priority) ==
  [route_patterns |-> patterns, route_priority |-> priority]

\* the content rules of the routing runs: coder alone matches "bug", or
\* coder and qa match it with the same priority
RoutingRules ==
  {[a \in RoutingAgentIds |->
      IF a \in S THEN Rule({"bug"}, 1) ELSE Rule({}, 0)] :
     S \in {{"coder"}, {"coder", "qa"}}}

\* every table of rules with up to MaxPriority + 1 priorities
SmartRules ==
  [RoutingAgentIds ->
     {Rule(ps, pr) : ps \in {{}, {"bug"}, {"bug", "fix"}}, pr \in 0..MaxPriority}]

\* the orders in which a map can yield its agents
Orders ==
  {o \in [1..Cardinality(RoutingAgentIds) -> RoutingAgentIds] :
     \A i, j \in DOMAIN o : o[i] = o[j] => i = j}

MentionTokens ==
  {At("Coder"), At("ops"), At("qa"), At("DEV"), At("Core"), At("Platform"),
   At("nobody")}

WordTokens == {Word("fix"), Word("BUG")}

\* the messages of one to MaxMsgLen tokens
Messages(tokens) == UNION {[1..k -> tokens] : k \in 1..MaxMsgLen}

RoutingInit ==
  /\ QueueIdle
  /\ FailoverIdle
  /\ SessionIdle
  /\ HandoffIdle
  /\ raw \in Messages(MentionTokens \cup WordTokens)
  /\ rules \in RoutingRules
  /\ order \in Orders
  /\ routed = NotRouted
  /\ settings = MissingFile

\* one call of parse_agent_routing
Route ==
  /\ routed = NotRouted
  /\ routed' = RouteInOrder(order, raw, RoutingAgents(rules), RoutingTeams)
  /\ UNCHANGED <<raw, rules, order, settings, qvars, fvars, svars, mvars>>

SpecRouting == RoutingInit /\ [][Route]_vars

SmartInit ==
  /\ QueueIdle
  /\ FailoverIdle
  /\ SessionIdle
  /\ HandoffIdle
  /\ raw \in Messages(WordTokens)
  /\ rules \in SmartRules
  /\ order \in Orders
  /\ routed = NotRouted
  /\ settings = MissingFile

\* one call of match_agent_by_content; the message is recorded with the
\* agent it returned
Match ==
  /\ routed = NotRouted
  /\ routed' = [NotRouted EXCEPT
                  !.agent_id = MatchInOrder(order, raw, RoutingAgents(rules)),
                  !.message = raw]
  /\ UNCHANGED <<raw, rules, order, settings, qvars, fvars, svars, mvars>>

SpecSmart == SmartInit /\ [][Match]_vars

(***************************************************************************)
(* The choice of the agent of a message, from the settings file as it is   *)
(* found when the message is processed.                                    *)
(***************************************************************************)
\* Settings::default(): no agents, no teams
DefaultSettings == [agents |-> << >>, teams |-> << >>]

\* a settings file: missing, not readable as text, not valid JSON, or a
\* document with its agents and teams
ValidFile(agents, teams) == [kind |-> "valid", agents |-> agents, teams |-> teams]

\* get_settings: the error of a file that exists and cannot be read is
\* returned; a missing file and a file that does not parse give the default
get_settings(file) ==
  CASE file.kind = "unreadable" -> [ok |-> FALSE, settings |-> DefaultSettings]
    [] file.kind = "valid" ->
         [ok |-> TRUE, settings |-> [agents |-> file.agents, teams |-> file.teams]]
    [] OTHER -> [ok |-> TRUE, settings |-> DefaultSettings]

\* get_default_agent_from_models
DefaultAgent ==
  [name |-> "Default", cross_team_handoffs |-> TRUE,
   route_patterns |-> {}, route_priority |-> 0]

\* get_agents without the implicit agent
get_agents_as_configured(s) == s.agents

\* get_agents: the configured agents, or the implicit agent "default" alone
get_agents(s) ==
  IF DOMAIN s.agents # {} THEN s.agents ELSE [a \in {"default"} |-> DefaultAgent]

get_teams(s) == s.teams

\* the agents a settings file may configure
ConfiguredAgents(ids) ==
  [a \in ids |->
     IF a = "default" THEN DefaultAgent
     ELSE [name |-> IF a = "coder" THEN "Coder" ELSE "Dev",
           cross_team_handoffs |-> FALSE,
           route_patterns |-> IF a = "coder" THEN {"bug"} ELSE {},
           route_priority |-> 0]]

SettingsFiles ==
  {MissingFile, [kind |-> "unreadable"], [kind |-> "invalid"]}
    \cup {ValidFile(ConfiguredAgents(ids), teams) :
            ids \in SUBSET {"coder", "ops", "default"},
            teams \in {<< >>, RoutingTeams}}

\* the message files of the runs: from a channel or a hop, pre-routed to an
\* agent (that may be unknown) or not
SelectFiles(text) ==
  {[name |-> 1, mid |-> 1, text |-> text, agent |-> a, conv |-> c,
    from |-> NoAgent, ok |-> TRUE] :
     a \in {NoAgent, "ops", "ghost"}, c \in {NoConv, 1}}

Selected(outcome, agent_id, f) ==
  [outcome |-> outcome, agent_id |-> agent_id, file |-> f]

\* process_message_inner from the read of the settings to the choice of the
\* agent: the ways in which it can go on
select_agent(f, file) ==
  LET got == get_settings(file)
      agents == get_agents(got.settings)
      teams == get_teams(got.settings)
      r == RouteOf(f, agents, teams)
  IN IF ~got.ok
     THEN {Selected("settings error", NoAgent, f)}
     ELSE IF f.conv = NoConv /\ Len(r.multi_agents) > 1
     THEN {Selected("dispatch", r.multi_agents[i], f) : i \in 1..Len(r.multi_agents)}
     ELSE IF ResolveAgent(r.agent_id, agents) = {}
     THEN {Selected("no agents configured", NoAgent, f)}
     ELSE {Selected("agent", a, f) : a \in ResolveAgent(r.agent_id, agents)}

SelectTokens == {At("Coder"), At("ops"), At("DEV"), At("nobody"), Word("BUG")}

SelectInit ==
  /\ QueueIdle
  /\ FailoverIdle
  /\ SessionIdle
  /\ HandoffIdle
  /\ raw \in Messages(SelectTokens)
  /\ rules = << >>
  /\ order = <<>>
  /\ routed = NotRouted
  /\ settings \in SettingsFiles

\* a message is processed up to the choice of its agent
Select ==
  /\ routed = NotRouted
  /\ \E f \in SelectFiles(raw) : routed' \in select_agent(f, settings)
  /\ UNCHANGED <<raw, rules, order, settings, qvars, fvars, svars, mvars>>

SpecSelect == SelectInit /\ [][Select]_vars

(***************************************************************************)
(* Sessions: the per-agent store of (agent, channel, sender) continuity,   *)
(* the reset policy and the legacy reset marker.                           *)
(***************************************************************************)
DEFAULT_RESET_HOUR == 4
DEFAULT_IDLE_TIMEOUT_MINUTES == 120
MinuteMs == 60000
HourMs == 3600000
DayMs == 86400000

\* Option<T>: None, or the value itself
None == -1

resolve_session_key(agent_id, channel, sender) ==
  agent_id \o ":" \o channel \o ":" \o sender

resolve_reset_policy(agent) ==
  IF agent.reset_policy = "" THEN "both" ELSE agent.reset_policy

resolve_reset_hour(agent) ==
  IF agent.reset_hour = None THEN DEFAULT_RESET_HOUR ELSE agent.reset_hour

resolve_idle_timeout(agent) ==
  IF agent.idle_timeout_minutes = None THEN DEFAULT_IDLE_TIMEOUT_MINUTES
  ELSE agent.idle_timeout_minutes

\* the mutant of is_stale_daily: today's reset time also before it has come
is_stale_since_today(updated_at, t, reset_hour) ==
  /\ reset_hour < 24
  /\ updated_at < (t \div DayMs) * DayMs + reset_hour * HourMs

\* stale by the daily reset at reset_hour UTC: the session was last updated
\* before the latest reset time that has passed; an hour that is no hour of
\* the day yields no reset time
is_stale_daily(updated_at, t, reset_hour) ==
  /\ reset_hour < 24
  /\ LET reset_at == (t \div DayMs) * DayMs + reset_hour * HourMs
         effective_reset == IF t < reset_at THEN Max(reset_at - DayMs, 0)
                            ELSE reset_at
     IN  updated_at < effective_reset

\* the mutant of is_stale_idle: stale from the timeout on
is_stale_at_timeout(updated_at, t, timeout_minutes) ==
  Max(t - updated_at, 0) >= timeout_minutes * MinuteMs

is_stale_idle(updated_at, t, timeout_minutes) ==
  LET idle_ms == Max(t - updated_at, 0)
  IN  idle_ms > timeout_minutes * MinuteMs

\* TRUE when the session is fresh; t is now_millis()
evaluate_session_freshness(entry, agent, t) ==
  LET policy == resolve_reset_policy(agent)
      daily == is_stale_daily(entry.updated_at, t, resolve_reset_hour(agent))
      idle == is_stale_idle(entry.updated_at, t, resolve_idle_timeout(agent))
  IN  CASE policy = "manual" -> TRUE
        [] policy = "daily" -> ~daily
        [] policy = "idle" -> ~idle
        [] OTHER -> ~daily /\ ~idle

\* the agent whose sessions are followed, and who talks to it
SessionAgent == "coder"
Peers == {<<"discord", "ann">>, <<"telegram", "ann:bot">>}

NewEntry(channel, sender, t) ==
  [session_id |-> t, updated_at |-> t, channel |-> channel, sender |-> sender,
   total_chars |-> 0, compaction_count |-> 0]

\* the mutant of resolve_should_reset: the marker is not looked at
resolve_by_policy_alone(table, marked, agent_id, agent, channel, sender, t) ==
  LET session_key == resolve_session_key(agent_id, channel, sender)
      existed == session_key \in DOMAIN table
      fresh == existed /\ evaluate_session_freshness(table[session_key], agent, t)
  IN  [flag_reset |-> marked, existed |-> existed, fresh |-> fresh,
       should_reset |-> ~fresh,
       session_id |-> IF existed THEN table[session_key].session_id ELSE t]

\* the locals of resolve_should_reset, and the pair it returns: should_reset
\* and session_id (a new id carries the time it was generated at)
resolve_should_reset(table, marked, agent_id, agent, channel, sender, t) ==
  LET session_key == resolve_session_key(agent_id, channel, sender)
      existed == session_key \in DOMAIN table
      fresh == existed /\ evaluate_session_freshness(table[session_key], agent, t)
  IN  [flag_reset |-> marked, existed |-> existed, fresh |-> fresh,
       should_reset |-> IF existed THEN marked \/ ~fresh ELSE TRUE,
       session_id |-> IF existed THEN table[session_key].session_id ELSE t]

\* the mutant of update_session: the total goes on over a reset
update_session_keeping_total(table, agent_id, channel, sender, message_chars, response_chars, was_reset, t) ==
  LET session_key == resolve_session_key(agent_id, channel, sender)
      entry == IF session_key \in DOMAIN table THEN table[session_key]
               ELSE NewEntry(channel, sender, t)
  IN  (session_key :> [entry EXCEPT
                         !.session_id = IF was_reset THEN t ELSE @,
                         !.updated_at = t,
                         !.total_chars = @ + message_chars + response_chars])
      @@ table

\* the store that update_session saves
update_session(table, agent_id, channel, sender, message_chars, response_chars, was_reset, t) ==
  LET session_key == resolve_session_key(agent_id, channel, sender)
      entry == IF session_key \in DOMAIN table THEN table[session_key]
               ELSE NewEntry(channel, sender, t)
      reset == IF was_reset
               THEN [entry EXCEPT !.session_id = t, !.total_chars = 0]
               ELSE entry
  IN  (session_key :> [reset EXCEPT
                         !.updated_at = t,
                         !.total_chars = @ + message_chars + response_chars])
      @@ table

\* the configurations of the agent: reset_policy, reset_hour and
\* idle_timeout_minutes as settings.json gives them
SessionConfigs ==
  [reset_policy : {"manual", "daily", "idle", "both", "", "weekly"},
   reset_hour : {None},
   idle_timeout_minutes : {None, 60}]

\* a store left by earlier turns: the peers of P have a session of `chars`
\* characters, last updated at `at`
StoreLeft(P, at, chars) ==
  [k \in {resolve_session_key(SessionAgent, p[1], p[2]) : p \in P} |->
     LET p == CHOOSE q \in P : resolve_session_key(SessionAgent, q[1], q[2]) = k
     IN  [NewEntry(p[1], p[2], at) EXCEPT !.total_chars = chars]]

CurrentTurn == turn[Len(turn)]
Resolving == turn # <<>> /\ CurrentTurn.pc = "resolved"

\* a turn begins: process_message_inner resolves the session of the sender
Resolve(channel, sender) ==
  /\ ~Resolving
  /\ Len(turn) < MaxTurns
  /\ LET r == resolve_should_reset(sessions, flag, SessionAgent, scfg,
                                   channel, sender, snow)
     IN  turn' = Append(turn, r @@ [pc |-> "resolved", channel |-> channel,
                                     sender |-> sender, at |-> snow,
                                     before |-> sessions, message_chars |-> 0,
                                     response_chars |-> 0])
  /\ flag' = FALSE
  /\ UNCHANGED <<sessions, snow, scfg, qvars, fvars, rvars, mvars>>

\* the turn ends: the agent has answered and the session is updated
Update(message_chars, response_chars) ==
  /\ Resolving
  /\ sessions' = update_session(sessions, SessionAgent, CurrentTurn.channel,
                                CurrentTurn.sender, message_chars,
                                response_chars, CurrentTurn.should_reset, snow)
  /\ turn' = [turn EXCEPT ![Len(turn)] =
                [@ EXCEPT !.pc = "updated", !.at = snow, !.before = sessions,
                          !.message_chars = message_chars,
                          !.response_chars = response_chars]]
  /\ UNCHANGED <<flag, snow, scfg, qvars, fvars, rvars, mvars>>

\* a channel client handles a reset command: it writes the marker
Mark ==
  /\ ~flag
  /\ flag' = TRUE
  /\ UNCHANGED <<sessions, snow, turn, scfg, qvars, fvars, rvars, mvars>>

\* time passes
SessionTick ==
  /\ snow < StartTime + MaxSessionTicks * SessionStep
  /\ snow' = snow + SessionStep
  /\ UNCHANGED <<sessions, flag, turn, scfg, qvars, fvars, rvars, mvars>>

SessionInit ==
  /\ QueueIdle
  /\ FailoverIdle
  /\ RoutingIdle
  /\ HandoffIdle
  /\ \E P \in SUBSET Peers : sessions = StoreLeft(P, 0, MaxChars)
  /\ flag \in BOOLEAN
  /\ snow = StartTime
  /\ turn = <<>>
  /\ scfg \in SessionConfigs

SessionNext ==
  \/ \E p \in Peers : Resolve(p[1], p[2])
  \/ \E r \in {0, MaxChars} : Update(1, r)
  \/ Mark
  \/ SessionTick

SpecSession == SessionInit /\ [][SessionNext]_vars

\* evaluate_session_freshness on its own: one session, last updated on the
\* hour, looked at within a millisecond of an hour
Hours(d) == {h * HourMs + d : h \in 0..MaxHour}

FreshInit ==
  /\ QueueIdle
  /\ FailoverIdle
  /\ RoutingIdle
  /\ HandoffIdle
  /\ \E at \in Hours(0) : sessions = StoreLeft({<<"discord", "ann">>}, at, 0)
  /\ flag = FALSE
  /\ snow \in Hours(0) \cup Hours(1)
  /\ turn = <<>>
  /\ \E c \in SessionConfigs : \E h \in {None, 2, 23, 24} :
       scfg = [c EXCEPT !.reset_hour = h]

Evaluate ==
  /\ turn = <<>>
  /\ Resolve("discord", "ann")

SpecFresh == FreshInit /\ [][Evaluate]_vars

(***************************************************************************)
(* Compaction: the budget of a session in characters.                      *)
(***************************************************************************)
CHARS_PER_TOKEN == 4
DEFAULT_CONTEXT_WINDOW == 200000
DEFAULT_RESERVE_TOKENS == 40000

\* the mutant of compaction_threshold_chars: the reserve is subtracted as is
unclamped_threshold_chars(context_window, reserve_tokens) ==
  (context_window - reserve_tokens) * CHARS_PER_TOKEN

compaction_threshold_chars(context_window, reserve_tokens) ==
  LET usable_tokens == Max(context_window - reserve_tokens, 0)
  IN  usable_tokens * CHARS_PER_TOKEN

should_compact(total_chars, context_window, reserve_tokens) ==
  total_chars > compaction_threshold_chars(context_window, reserve_tokens)

resolve_context_window(agent_context_window) ==
  IF agent_context_window = None THEN DEFAULT_CONTEXT_WINDOW
  ELSE agent_context_window

\* should_compact on its own: the windows an agent is configured with, the
\* reserves, and the totals within CompactMargin of a budget
Windows == {resolve_context_window(w) : w \in {None, 0, 1000, DEFAULT_RESERVE_TOKENS}}
Reserves == {0, 200, DEFAULT_RESERVE_TOKENS, DEFAULT_CONTEXT_WINDOW}
Totals ==
  {t \in {(w - r) * CHARS_PER_TOKEN + d :
            w \in Windows, r \in Reserves, d \in (0 - CompactMargin)..CompactMargin} :
     t >= 0}

CompactInit ==
  /\ QueueIdle
  /\ FailoverIdle
  /\ RoutingIdle
  /\ HandoffIdle
  /\ sessions = << >>
  /\ flag = FALSE
  /\ snow = 0
  /\ scfg = << >>
  /\ \E t \in Totals : \E w \in Windows : \E r \in Reserves :
       turn = <<[pc |-> "updated", total_chars |-> t, context_window |-> w,
                 reserve_tokens |-> r, compact |-> FALSE]>>

\* the check that follows update_session
Compact ==
  /\ turn[1].pc = "updated"
  /\ turn' = <<[turn[1] EXCEPT
                  !.pc = "checked",
                  !.compact = should_compact(turn[1].total_chars,
                                             turn[1].context_window,
                                             turn[1].reserve_tokens)]>>
  /\ UNCHANGED <<sessions, flag, snow, scfg, qvars, fvars, rvars, mvars>>

SpecCompact == CompactInit /\ [][Compact]_vars

(***************************************************************************)
(* A turn of an agent (process_message_inner between the routing and the   *)
(* handling of the response): the session is resolved, the agent is        *)
(* invoked, the session is updated, the total is checked against the       *)
(* budget and, above it, the agent is asked for a summary.                 *)
(***************************************************************************)
\* the lengths of the two fixed texts: the apology, and the note that
\* stands for a summary (without the number it quotes)
ApologyChars == 83
PlaceholderChars == 69

\* a window one token above the reserve: a budget of CHARS_PER_TOKEN characters
TightWindow == DEFAULT_RESERVE_TOKENS + 1

\* the length of a number in decimal
RECURSIVE Digits(_)
Digits(n) == IF n < 10 THEN 1 ELSE 1 + Digits(n \div 10)

\* "[Compaction summary unavailable. {} chars of context were accumulated.]"
placeholder_chars(total_chars) == PlaceholderChars + Digits(total_chars)

\* what the invocation of the agent may return: a response of some length,
\* or the error that the apology replaces
TurnOutcomes ==
  {[ok |-> TRUE, chars |-> n] : n \in 1..MaxChars} \cup {[ok |-> FALSE, chars |-> 0]}

\* the length of the response of the turn (response.len())
response_chars_of(result) == IF result.ok THEN result.chars ELSE ApologyChars

\* what the request for a summary may return
SummaryOutcomes ==
  {[ok |-> TRUE, chars |-> n] : n \in {0, MaxChars + 1}} \cup {[ok |-> FALSE, chars |-> 0]}

\* the mutant of compact_session: the total starts again from nothing
compact_session_to_zero(table, session_key, summary_chars) ==
  IF session_key \in DOMAIN table
  THEN [table EXCEPT ![session_key] =
          [@ EXCEPT !.total_chars = 0, !.compaction_count = @ + 1]]
  ELSE table

\* "Reset session chars and increment compaction count": the store that is
\* saved after the summary
compact_session(table, session_key, summary_chars) ==
  IF session_key \in DOMAIN table
  THEN [table EXCEPT ![session_key] =
          [@ EXCEPT !.total_chars = summary_chars, !.compaction_count = @ + 1]]
  ELSE table

\* the configurations of the agent of the turns
TurnConfigs ==
  [reset_policy : {"manual", "idle"},
   reset_hour : {None},
   idle_timeout_minutes : {None},
   context_window : {None, TightWindow}]

\* the worker of the agent is between two messages
TurnOver == IF turn = <<>> THEN TRUE ELSE CurrentTurn.pc = "replied"

\* the worker takes the next message of a sender
Begin(channel, sender) ==
  /\ TurnOver
  /\ Resolve(channel, sender)

\* invoke_agent_with_failover returns, and the match puts the apology in
\* the place of an error
Invoke(result) ==
  /\ Resolving
  /\ turn' = [turn EXCEPT ![Len(turn)] =
                [ok |-> result.ok, total_chars |-> 0, compaction_count |-> 0,
                 summary_chars |-> 0, summarized |-> FALSE]
                @@ [@ EXCEPT !.pc = "invoked",
                             !.message_chars = 1,
                             !.response_chars = response_chars_of(result)]]
  /\ UNCHANGED <<sessions, flag, snow, scfg, qvars, fvars, rvars, mvars>>

\* "Update session state and check for compaction"
Settle ==
  /\ turn # <<>>
  /\ CurrentTurn.pc = "invoked"
  /\ LET t == CurrentTurn
         key == resolve_session_key(SessionAgent, t.channel, t.sender)
         saved == update_session(sessions, SessionAgent, t.channel, t.sender,
                                 t.message_chars, t.response_chars,
                                 t.should_reset, snow)
         session_entry == saved[key]
         context_window == resolve_context_window(scfg.context_window)
     IN /\ sessions' = saved
        /\ turn' = [turn EXCEPT ![Len(turn)] =
                      [@ EXCEPT !.pc = IF should_compact(session_entry.total_chars,
                                                         context_window,
                                                         DEFAULT_RESERVE_TOKENS)
                                       THEN "compacting" ELSE "updated",
                                !.at = snow,
                                !.before = sessions,
                                !.total_chars = session_entry.total_chars,
                                !.compaction_count = session_entry.compaction_count]]
  /\ UNCHANGED <<flag, snow, scfg, qvars, fvars, rvars, mvars>>

\* the agent is asked to summarize; its summary, or the note that stands
\* for it, is measured and the session is saved with it
Summarize(result) ==
  /\ turn # <<>>
  /\ CurrentTurn.pc = "compacting"
  /\ LET t == CurrentTurn
         key == resolve_session_key(SessionAgent, t.channel, t.sender)
         summary_chars == IF result.ok THEN result.chars
                          ELSE placeholder_chars(t.total_chars)
     IN /\ sessions' = compact_session(sessions, key, summary_chars)
        /\ turn' = [turn EXCEPT ![Len(turn)] =
                      [@ EXCEPT !.pc = "compacted",
                                !.summary_chars = summary_chars,
                                !.summarized = result.ok]]
  /\ UNCHANGED <<flag, snow, scfg, qvars, fvars, rvars, mvars>>

\* the response goes on to the reply
Deliver ==
  /\ turn # <<>>
  /\ CurrentTurn.pc \in {"updated", "compacted"}
  /\ turn' = [turn EXCEPT ![Len(turn)] = [@ EXCEPT !.pc = "replied"]]
  /\ UNCHANGED <<sessions, flag, snow, scfg, qvars, fvars, rvars, mvars>>

TurnInit ==
  /\ QueueIdle
  /\ FailoverIdle
  /\ RoutingIdle
  /\ HandoffIdle
  /\ \E P \in SUBSET Peers : sessions = StoreLeft(P, 0, MaxChars)
  /\ flag \in BOOLEAN
  /\ snow = StartTime
  /\ turn = <<>>
  /\ scfg \in TurnConfigs

\* between two turns a reset may be asked for and time may pass
TurnNext ==
  \/ \E p \in Peers : Begin(p[1], p[2])
  \/ \E r \in TurnOutcomes : Invoke(r)
  \/ Settle
  \/ \E r \in SummaryOutcomes : Summarize(r)
  \/ Deliver
  \/ TurnOver /\ Mark
  \/ TurnOver /\ SessionTick

SpecTurn == TurnInit /\ [][TurnNext]_vars

(***************************************************************************)
(* The two stores as files that may be missing, unreadable or damaged.     *)
(* A file is a record: whether the path exists, whether read_to_string     *)
(* succeeds on it, and the text it holds.                                  *)
(***************************************************************************)
NoSuchFile == [exists |-> FALSE, readable |-> FALSE, text |-> <<>>]

\* the file std::fs::write leaves
written(map) == [exists |-> TRUE, readable |-> TRUE, text |-> to_string_pretty(map)]

\* the files an earlier run may have left of a map: none, one that cannot be
\* read, and every prefix of the text, the whole text included
StoreFiles(map) ==
  {NoSuchFile, [written(map) EXCEPT !.readable = FALSE]}
    \cup {[written(map) EXCEPT !.text = SubSeq(@, 1, n)] :
            n \in 0..Len(to_string_pretty(map))}

\* the entries of a text up to the place where it stops parsing
entries_read(text) ==
  LET body == {i \in 1..Len(text) : text[i].key \notin {"{", "}"}}
  IN  [k \in {text[i].key : i \in body} |->
         text[CHOOSE i \in body : text[i].key = k].entry]

\* the mutant of load_sessions: a text that does not parse gives the entries
\* read so far
load_sessions_lenient(path) ==
  IF ~path.exists THEN << >>
  ELSE IF path.readable THEN entries_read(path.text)
  ELSE << >>

load_sessions(path) ==
  IF ~path.exists THEN << >>
  ELSE IF path.readable THEN from_str_or_default(path.text)
  ELSE << >>

load_cooldowns_file(path) ==
  IF ~path.exists THEN << >>
  ELSE IF path.readable THEN from_str_or_default(path.text)
  ELSE << >>

\* the outcomes of a save whose result the caller drops: the write replaces
\* the file, or fails on a path that cannot be read either
Saved(path, map) ==
  IF path.exists /\ ~path.readable THEN {path, written(map)} ELSE {written(map)}

LoadInit ==
  /\ QueueIdle
  /\ RoutingIdle
  /\ HandoffIdle
  /\ fnow = StartTime
  /\ ticks = 0
  /\ call = [c \in Callers |-> NoCall]
  /\ \E S \in {{}, {"m1"}, {"m2", "m3"}} :
       store \in StoreFiles(StoreAfter(S, 1, StartTime))
  /\ \E P \in SUBSET Peers : sessions \in StoreFiles(StoreLeft(P, 0, MaxChars))
  /\ flag = FALSE
  /\ snow = StartTime
  /\ turn = <<>>
  /\ scfg = [reset_policy |-> "manual", reset_hour |-> None,
             idle_timeout_minutes |-> None]

\* the calls that have returned
Returned == {c \in Callers : call[c].pc = "done"}

\* the turn invokes its agent: invoke_with_failover loads the cooldown file
LoadCall(c) ==
  /\ Resolving
  /\ \A d \in Callers : call[d].pc \in {"idle", "done"}
  /\ Cardinality(Returned) < Len(turn)
  /\ call[c].pc = "idle"
  /\ call' = [call EXCEPT ![c] = [file |-> store] @@
                [NoCall EXCEPT !.pc = "check", !.idx = 1,
                               !.cooldowns = load_cooldowns_file(store),
                               !.snapshot = load_cooldowns_file(store)]]
  /\ UNCHANGED <<store, fnow, ticks>>
  /\ UNCHANGED <<qvars, rvars, svars, mvars>>

\* invoke_agent returns and the caller's map is saved to the file
LoadReturn(c) ==
  /\ call[c].pc = "invoking"
  /\ LET key == Candidates(c)[call[c].idx]
         n == Len(call[c].log)
     IN \E ok \in BOOLEAN :
          LET cd == IF ok THEN clear_cooldown(call[c].cooldowns, key)
                    ELSE record_failure(call[c].cooldowns, key, fnow)
          IN /\ store' \in Saved(store, cd)
             /\ call' = [call EXCEPT
                           ![c].pc = IF ok THEN "done" ELSE "check",
                           ![c].idx = IF ok THEN @ ELSE @ + 1,
                           ![c].result = IF ok THEN "ok" ELSE @,
                           ![c].cooldowns = cd,
                           ![c].log[n] = [key |-> key,
                                          what |-> IF ok THEN "ok" ELSE "failed",
                                          at |-> IF ok THEN 0 ELSE fnow]]
  /\ UNCHANGED <<fnow, ticks>>
  /\ UNCHANGED <<qvars, rvars, svars, mvars>>

\* a turn begins: resolve_should_reset loads the session file; the agent is
\* invoked next
LoadTurn(channel, sender) ==
  /\ ~Resolving
  /\ Len(turn) < MaxTurns
  /\ LET table == load_sessions(sessions)
         r == resolve_should_reset(table, flag, SessionAgent, scfg,
                                   channel, sender, snow)
     IN  turn' = Append(turn, r @@ [pc |-> "resolved", channel |-> channel,
                                     sender |-> sender, at |-> snow,
                                     before |-> table, file |-> sessions,
                                     message_chars |-> 0, response_chars |-> 0])
  /\ flag' = FALSE
  /\ UNCHANGED <<sessions, snow, scfg, qvars, fvars, rvars, mvars>>

\* the invocation has returned and the turn ends: update_session loads the
\* file again and saves the store
LoadUpdate(message_chars, response_chars) ==
  /\ Resolving
  /\ Cardinality(Returned) = Len(turn)
  /\ LET table == load_sessions(sessions)
     IN  sessions' \in Saved(sessions,
                             update_session(table, SessionAgent, CurrentTurn.channel,
                                            CurrentTurn.sender, message_chars,
                                            response_chars, CurrentTurn.should_reset, snow))
  /\ turn' = [turn EXCEPT ![Len(turn)] =
                [@ EXCEPT !.pc = "updated", !.at = snow,
                          !.message_chars = message_chars,
                          !.response_chars = response_chars]]
  /\ UNCHANGED <<flag, snow, scfg, qvars, fvars, rvars, mvars>>

LoadNext ==
  \/ \E c \in Callers : LoadCall(c)
  \/ \E c \in Callers : FCheck(c)
  \/ \E c \in Callers : LoadReturn(c)
  \/ \E p \in Peers : LoadTurn(p[1], p[2])
  \/ LoadUpdate(1, MaxChars)

SpecLoad == LoadInit /\ [][LoadNext]_vars

(***************************************************************************)
(* The mention extraction of a recorded response on its own.               *)
(***************************************************************************)
\* the directive tags a response may carry: each form, for the agents (one
\* of them in capitals) and for an id that is no agent
TagForms == {"bracket", "bang", "natural"}
TaggedIds == AgentIds \cup {"Ops", "ghost"}
Tags == {Tag(form, id) : form \in TagForms, id \in TaggedIds}

\* the responses of up to MaxTags tags
TaggedResponses == UNION {[1..n -> Tags] : n \in 0..MaxTags}

\* a response of an agent is about to be recorded, in a conversation of
\* team dev or in one without a team
MentionsInit ==
  /\ QueueIdle
  /\ FailoverIdle
  /\ RoutingIdle
  /\ SessionIdle
  /\ \E r \in TaggedResponses : \E a \in AgentIds : \E t \in {NoTeam, "dev"} :
       handoff = [pc |-> "responded", response |-> r, agent_id |-> a,
                  team_id |-> t, mentions |-> <<>>]

\* the three strategies in a team conversation, the two of the ad-hoc path
\* outside one
Extract ==
  /\ handoff.pc = "responded"
  /\ handoff' = [handoff EXCEPT
       !.pc = "extracted",
       !.mentions = IF handoff.team_id = NoTeam
                    THEN AdHocMentions(handoff.response, handoff.agent_id, Agents)
                    ELSE TeamMentions(handoff.response, handoff.agent_id,
                                      handoff.team_id, Teams, Agents)]
  /\ UNCHANGED <<qvars, fvars, rvars, svars>>

SpecMentions == MentionsInit /\ [][Extract]_vars

(***************************************************************************)
(* Properties of the queue processor.                                      *)
(***************************************************************************)
\* C1: no queue item is held by two workers at the same time, whatever the
\* interleaving of the poll loop, the claimed set, the claim-by-rename and
\* the failure path that renames the processing copy back: between its claim
\* and its ack/nack an item has one holder, its name is in the claimed set,
\* and it stays in processing, out of the reach of any other claim
C1_OneHolder ==
  \A w1 \in WorkerIds :
    worker[w1].pc # "idle" =>
      /\ worker[w1].file \in processing
      /\ worker[w1].file.name \notin Names(incoming)
      /\ worker[w1].file.name \in queued
      /\ \A w2 \in WorkerIds :
           (worker[w2].pc # "idle"
              /\ worker[w2].file.name = worker[w1].file.name) => w2 = w1

\* a worker holds an item while a listing taken before the claim still
\* names it
C1_Witness ==
  /\ pollPc = "dispatch"
  /\ \E w \in WorkerIds :
       /\ worker[w].pc # "idle"
       /\ worker[w].file.name \in SeqToSet(listing)

\* C2 (as stated): at any time at most one message is being processed for
\* any resolved agent id, the "default" / first-agent fallback included
C2_OneInvocationPerAgent ==
  \A w1, w2 \in WorkerIds :
    (/\ worker[w1].pc = "invoke"
     /\ worker[w2].pc = "invoke"
     /\ worker[w1].agent = worker[w2].agent) => w1 = w2

\* C3 (as stated): a conversation whose pending counter reached 0 is removed
\* from the table and finalized within the same critical section, so that
\* whenever the table lock is free no removed conversation awaits its reply
C3_FinalizedUnderLock ==
  \A w \in WorkerIds : worker[w].pc # "complete"

\* C3 (amended): every conversation in the table has pending >= 1; a
\* conversation leaves the table only by a crash, by the timeout sweep (which
\* writes its reply in the same step), or in the critical section of the
\* branch that took pending to 0, and that branch writes the reply after it
\* released the lock, before it removes its processing copy
C3_RemovedAtZeroFinalizedAfter ==
  [][ /\ \A c \in DOMAIN convs' : convs'[c].pending >= 1
      /\ \A c \in DOMAIN convs \ DOMAIN convs' :
           \/ crashes' # crashes
           \/ /\ c \in TimedOut(convs, now)
              /\ CopiesIn(convs[c].message_id, outgoing')
                   > CopiesIn(convs[c].message_id, outgoing)
           \/ \E w \in WorkerIds :
                /\ worker[w].pc = "invoke"
                /\ worker'[w].pc = "complete"
                /\ \E d \in worker'[w].done : d.id = c /\ d.conv.pending = 0
                /\ outgoing' = outgoing
      /\ \A w \in WorkerIds :
           worker'[w].pc = "complete" =>
             /\ worker'[w].file \in processing'
             /\ \A d \in worker'[w].done :
                  d.conv.pending = 0 /\ d.id \notin DOMAIN convs'
      /\ \A w \in WorkerIds :
           (worker[w].pc = "complete" /\ worker'[w].pc # "complete" /\ crashes' = crashes) =>
             \A d \in worker[w].done :
               CopiesIn(d.conv.message_id, outgoing')
                 = CopiesIn(d.conv.message_id, outgoing) + 1
    ]_vars

\* a branch took the counter of a conversation with an earlier response to 0
\* and has not written the reply yet
C3_Witness ==
  \E w \in WorkerIds :
    /\ worker[w].pc = "complete"
    /\ \E d \in worker[w].done : d.conv.total_messages >= 2

\* C4 (as stated): without any crash, at most one reply carries a given
\* message id, also when the timeout sweep force-completed the conversation
\* and a branch of it finishes later
C4_OneReplyPerMessage ==
  crashes = 0 => \A m \in BagToSet(outgoing) : CopiesIn(m, outgoing) = 1

\* C5: every well-formed message in the queue eventually has a reply with
\* its message id in outgoing, crashes included; and a processing copy
\* disappears only by a rename back into incoming or at the end of a
\* processing whose reply was written or whose response was recorded
C5_AtLeastOnce ==
  /\ \A m \in 1..MaxUserMsgs :
       (\E f \in incoming \cup processing : f.mid = m /\ f.ok)
         ~> (CopiesIn(m, outgoing) >= 1)
  /\ [][ \A f \in processing \ processing' :
           \/ f \in incoming'
           \/ \E w \in WorkerIds :
                /\ worker[w].file = f
                /\ \/ worker[w].pc = "ack"
                   \/ /\ worker[w].pc = "complete"
                      /\ CopiesIn(f.mid, outgoing') > CopiesIn(f.mid, outgoing)
        ]_vars

\* after a crash, with no handoff and no timeout in the run, a message has
\* two replies: it was answered, recovered and answered again
C5_Witness ==
  /\ crashes >= 1
  /\ hops = 0
  /\ now = 0
  /\ \E m \in BagToSet(outgoing) : CopiesIn(m, outgoing) >= 2

\* C6: the startup recovery empties processing into incoming before the
\* first tick (nothing is listed or dispatched before it), and every
\* recovered item is dispatched again
C6_RecoveryBeforeFirstTick ==
  /\ [](pollPc = "recover" =>
          /\ queued = {} /\ listing = <<>>
          /\ \A w \in WorkerIds : chan[w] = <<>> /\ worker[w].pc = "idle")
  /\ [][ (pollPc = "recover" /\ pollPc' # "recover") =>
           /\ processing' = {}
           /\ incoming' = incoming \cup processing ]_vars
  /\ \A n \in 1..MaxUserMsgs :
       (pollPc = "recover" /\ n \in Names(processing)) ~> (n \in queued)

\* an answered message is back in incoming and handed to a worker again,
\* in a run with a crash and with no handoff and no timeout
C6_Witness ==
  /\ crashes >= 1
  /\ hops = 0
  /\ now = 0
  /\ pollPc # "recover"
  /\ \E f \in incoming :
       /\ f.ok
       /\ f.name \in queued
       /\ CopiesIn(f.mid, outgoing) >= 1

\* C7: no item is in incoming and in processing at once; when
\* process_message returns for an item (its name leaves the claimed set), the
\* item is not in processing, and it is in incoming exactly when the
\* processing failed; a failed item is dispatched again and again
C7_OneDirectoryAndRetry ==
  /\ [](Names(incoming) \cap Names(processing) = {})
  /\ [](Cardinality(Names(incoming \cup processing))
          = Cardinality(incoming \cup processing))
  /\ [][ \A n \in queued \ queued' :
           crashes' = crashes =>
             /\ n \notin Names(processing')
             /\ (\E w \in WorkerIds : worker[w].pc # "idle" /\ worker[w].file.name = n)
                  => n \notin Names(incoming')
             /\ (\E f \in incoming : f.name = n /\ ~f.ok)
                  => (\E f \in incoming' : f.name = n /\ ~f.ok)
        ]_vars
  /\ \A n \in 1..MaxUserMsgs :
       (\E f \in incoming : f.name = n /\ ~f.ok /\ n \notin queued) ~> (n \in queued)

\* a file that does not parse is back in incoming and out of the claimed set
\* while the tick that dispatched it is still going through its listing
C7_Witness ==
  /\ pollPc = "dispatch"
  /\ listing # <<>>
  /\ \E f \in incoming :
       /\ ~f.ok
       /\ f.name < Head(listing)
       /\ f.name \notin queued
       /\ f.name \notin Names(processing)

(***************************************************************************)
(* Properties of the failover manager.                                     *)
(***************************************************************************)
\* the windows of the specification, by consecutive error count
Window(n) ==
  CASE n = 1 -> 60000
    [] n = 2 -> 300000
    [] n = 3 -> 1500000
    [] OTHER -> 3600000

\* the error count of a key in a map, 0 when the key has no entry
CountIn(cooldowns, key) ==
  IF key \in DOMAIN cooldowns THEN cooldowns[key].error_count ELSE 0

\* the keys a call has invoked so far
Attempted(c) ==
  {call[c].log[i].key : i \in {j \in 1..Len(call[c].log) : call[c].log[j].what # "skipped"}}

\* the step in which caller c decides about its next candidate
Decides(c) == Len(call'[c].log) = Len(call[c].log) + 1

\* the step in which an invocation of caller c returns a failure
Fails(c) ==
  /\ call[c].pc = "invoking"
  /\ call'[c].log[Len(call[c].log)].what = "failed"

\* the step in which a fallback of caller c succeeds after its primary failed
FallbackSucceeds(c) ==
  /\ call[c].pc = "invoking"
  /\ call'[c].result = "ok"
  /\ call[c].idx > 1
  /\ call[c].log[1].what = "failed"

\* the order of the candidates, the stop at the first success and the
\* result of a call, as far as the call has come
ChainShape(c) ==
  LET cands == Candidates(c)
      log == call[c].log
  IN /\ Len(log) <= Len(cands)
     /\ \A i \in 1..Len(log) : log[i].key = cands[i]
     /\ \A i \in 1..(Len(log) - 1) : log[i].what \in {"skipped", "failed"}
     /\ (call[c].result = "ok") <=> (log # <<>> /\ log[Len(log)].what = "ok")
     /\ (call[c].result = "err") <=>
          /\ call[c].pc = "done"
          /\ Len(log) = Len(cands)
          /\ \A i \in 1..Len(log) : log[i].what \in {"skipped", "failed"}
     /\ call[c].pc = "done" => call[c].result \in {"ok", "err"}

\* C8: the candidates are considered in the order primary, then the
\* fallbacks as configured; a candidate is skipped exactly when its cooldown
\* has not expired (in the store as the call loaded it, with the call's own
\* updates); the call stops at the first success, persists a failure for
\* each candidate that failed, and returns the aggregate failure exactly when
\* every candidate was skipped or failed
C8_FailoverChain ==
  /\ [](\A c \in Callers : ChainShape(c))
  /\ [][ \A c \in Callers :
           /\ Decides(c) =>
                LET e == call'[c].log[Len(call'[c].log)]
                    cd == call[c].cooldowns
                IN (e.what = "skipped")
                     <=> (e.key \in DOMAIN cd /\ fnow < cd[e.key].until)
           /\ Fails(c) =>
                LET key == Candidates(c)[call[c].idx]
                IN /\ key \in DOMAIN store'
                   /\ store'[key].error_count = CountIn(call[c].cooldowns, key) + 1
                   /\ call'[c].pc = "check"
                   /\ call'[c].idx = call[c].idx + 1 ]_vars

\* a call skipped a candidate, had another one fail and returned the
\* success of a third
C8_Witness ==
  \E c \in Callers :
    /\ call[c].result = "ok"
    /\ \E i, j \in 1..Len(call[c].log) :
         /\ call[c].log[i].what = "skipped"
         /\ call[c].log[j].what = "failed"

C10_CooldownWindows ==
  /\ [](/\ <<calculate_cooldown_ms(1), calculate_cooldown_ms(2), calculate_cooldown_ms(3),
             calculate_cooldown_ms(4), calculate_cooldown_ms(5)>>
            = <<60000, 300000, 1500000, 3600000, 3600000>>
        /\ \A k \in DOMAIN store :
             LET n == store[k].error_count
             IN /\ n >= 1
                /\ calculate_cooldown_ms(n) = Min(60 * Pow(5, Min(n - 1, 3)), 3600) * 1000
                /\ calculate_cooldown_ms(n) <= calculate_cooldown_ms(n + 1)
                /\ calculate_cooldown_ms(n) <= 3600000)
  /\ [][ \A c \in Callers :
           Fails(c) =>
             LET key == Candidates(c)[call[c].idx]
                 count == CountIn(call[c].cooldowns, key) + 1
             IN /\ call'[c].cooldowns[key].error_count = count
                /\ call'[c].cooldowns[key].until = fnow + Window(count)
                /\ store'[key] = call'[c].cooldowns[key] ]_vars

\* a key has failed five times in a row
C10_Witness ==
  \E k \in DOMAIN store :
    /\ store[k].error_count = 5
    /\ store[k].until = fnow + 3600000

\* the step in which an invocation of caller c returns a success
Succeeds(c) ==
  /\ call[c].pc = "invoking"
  /\ call'[c].result = "ok"

\* C11: a success resets the backoff: after any number of recorded failures
\* of a key, clear_cooldown leaves no entry for it and is_in_cooldown is
\* false, so that its next failure has error count 1 and the 60 s window;
\* the success of an invocation leaves the store in that state
C11_SuccessResetsBackoff ==
  /\ [](\A c \in Callers : \A k \in Models :
          LET failed == record_failure(record_failure(call[c].cooldowns, k, fnow), k, fnow)
              cleared == clear_cooldown(failed, k)
          IN /\ is_in_cooldown(failed, k, fnow)
             /\ failed[k].error_count >= 2
             /\ k \notin DOMAIN cleared
             /\ ~is_in_cooldown(cleared, k, fnow)
             /\ record_failure(cleared, k, fnow)[k]
                  = [until |-> fnow + 60000, error_count |-> 1]
             /\ \A j \in DOMAIN cleared : cleared[j] = failed[j])
  /\ [][ \A c \in Callers :
           Succeeds(c) =>
             LET key == Candidates(c)[call[c].idx]
             IN /\ key \notin DOMAIN store'
                /\ ~is_in_cooldown(store', key, fnow')
                /\ record_failure(store', key, fnow')[key]
                     = [until |-> fnow' + 60000, error_count |-> 1] ]_vars

\* a key that had failed at least twice succeeded for one caller and then
\* failed for another one: its count is 1 and its window 60 s
C11_Witness ==
  \E c, d \in Callers :
    /\ c # d
    /\ call[c].result = "ok"
    /\ LET k == call[c].log[Len(call[c].log)].key
       IN /\ k \in DOMAIN call[c].snapshot
          /\ call[c].snapshot[k].error_count >= 2
          /\ call[d].pc # "idle"
          /\ k \notin DOMAIN call[d].snapshot
          /\ k \in DOMAIN store
          /\ store[k] = [until |-> fnow + 60000, error_count |-> 1]

(***************************************************************************)
(* Properties of the processor with invocations that fail.                 *)
(***************************************************************************)
\* the step in which the invocation of worker w returns its error
Fails12(w) ==
  /\ worker[w].pc = "invoke"
  /\ worker'[w].failed

\* C12: when every model of the chain failed or was skipped, the processing
\* of the item still completes: the apology is handled as the agent's
\* response (it is written to outgoing as the reply, or recorded as the
\* branch's step in its conversation, and it hands off to nobody), the item
\* stays claimed in processing and is not returned to incoming, and the
\* worker's next step removes it from processing (writing the reply of the
\* conversation the apology completed).
C12_ApologyDelivered ==
  /\ [][\A w \in WorkerIds : Fails12(w) =>
          LET f == worker[w].file
              a == worker[w].agent
          IN /\ f \in processing'
             /\ incoming' = incoming
             /\ f.name \notin Names(incoming')
             /\ \/ /\ worker'[w].pc = "ack"
                   /\ outgoing' = outgoing (+) SetToBag({f.mid})
                   /\ convs' = convs
                \/ /\ worker'[w].pc = "ack"
                   /\ outgoing' = outgoing
                   /\ \E c \in DOMAIN convs' :
                        /\ convs'[c].responses # <<>>
                        /\ convs'[c].responses[Len(convs'[c].responses)]
                             = ChainStep(a, Apology)
                        /\ c \in DOMAIN convs =>
                             convs'[c].responses
                               = Append(convs[c].responses, ChainStep(a, Apology))
                \/ /\ worker'[w].pc = "complete"
                   /\ outgoing' = outgoing
                   /\ \E d \in worker'[w].done :
                        /\ d.id \notin DOMAIN convs'
                        /\ d.conv.message_id = f.mid
                        /\ d.conv.responses[Len(d.conv.responses)]
                             = ChainStep(a, Apology) ]_vars
  /\ [][\A w \in WorkerIds : (worker[w].failed /\ crashes' = crashes) =>
          LET f == worker[w].file
          IN /\ f \in processing
             /\ f.name \notin Names(incoming')
             /\ \/ worker'[w] = worker[w] /\ f \in processing'
                \/ /\ worker'[w] = IdleWorker
                   /\ f \notin processing'
                   /\ f.name \notin queued'
                   /\ outgoing' = IF worker[w].pc = "complete"
                                  THEN outgoing (+) SetToBag({f.mid})
                                  ELSE outgoing ]_vars

\* an invocation failed for an internal hop and the apology, recorded as the
\* hop's step, completed the conversation; another failed for a message that
\* is answered directly
C12_Witness ==
  /\ \E w \in WorkerIds :
       /\ worker[w].failed
       /\ worker[w].pc = "complete"
       /\ worker[w].file.conv # NoConv
       /\ \E d \in worker[w].done : Len(d.conv.responses) >= 2
  /\ \E w \in WorkerIds :
       /\ worker[w].failed
       /\ worker[w].pc = "ack"
       /\ worker[w].file.conv = NoConv
       /\ worker[w].team = NoTeam
       /\ BagIn(worker[w].file.mid, outgoing)

(***************************************************************************)
(* Properties of the conversation table.                                   *)
(***************************************************************************)
\* the ids a conversation can have: the names of the files of a run
ConvIds == 1..NameSpace

\* a worker took conversation c off the table and has not yet finalized it
Finalizing(c) == \E w \in WorkerIds : \E d \in worker[w].done : d.id = c

Unprocessed(c, inc, proc, wk) ==
  {f \in inc \cup proc :
     /\ f.conv = c
     /\ ~\E w \in WorkerIds : wk[w].file = f /\ wk[w].pc \in {"ack", "complete"}}

\* the step in which the branch of worker w completes conversation c
CompletesNormally(w, c) ==
  /\ worker[w].pc = "invoke"
  /\ worker'[w].pc = "complete"
  /\ \E d \in worker'[w].done : d.id = c

\* C14: a conversation is finalized through the normal path only after
\* every hop it enqueued has responded: for every conversation of the table
\* pending is at least the number of unprocessed hops that carry its id, no
\* such hop is left when a branch completes the conversation, and where the
\* completing branch is a hop that an agent (the leader, say) handed to a
\* teammate, the conversation holds that agent's response and, after it and
\* last, the teammate's.
C14_PendingCoversHops ==
  /\ [](\A c \in DOMAIN convs :
          convs[c].pending >= Cardinality(Unprocessed(c, incoming, processing, worker)))
  /\ [][\A w \in WorkerIds : \A c \in DOMAIN convs \cup {ConvId(worker[w].file)} :
          CompletesNormally(w, c) =>
            /\ Unprocessed(c, incoming', processing', worker') = {}
            /\ \A d \in worker'[w].done :
                 /\ d.conv.pending = 0
                 /\ (worker[w].file.conv = c /\ worker[w].file.from \in AgentIds) =>
                      /\ Len(d.conv.responses) >= 2
                      /\ \E i \in 1..(Len(d.conv.responses) - 1) :
                           d.conv.responses[i].agent_id = worker[w].file.from
                      /\ d.conv.responses[Len(d.conv.responses)].agent_id
                           = worker[w].agent ]_vars

\* the leader delegated to one teammate and the teammate's branch has just
\* completed the conversation: the reply is about to be written
C14_Witness ==
  \E w \in WorkerIds :
    /\ worker[w].pc = "complete"
    /\ worker[w].agent = "reviewer"
    /\ worker[w].file.from = "coder"
    /\ \E d \in worker[w].done :
         /\ d.id = worker[w].file.conv
         /\ Len(d.conv.responses) = 2
         /\ d.conv.responses[1].agent_id = "coder"
         /\ d.conv.responses[2].agent_id = "reviewer"
         /\ d.conv.team_context = "dev"
    /\ ~BagIn(worker[w].file.mid, outgoing)

(***************************************************************************)
(* Properties of the audited replies.                                      *)
(***************************************************************************)
\* the calls of complete_conversation made so far for conversation c
CallsFor(c) ==
  LET rs == {r \in BagToSet(outgoing) : r.conv = c}
  IN BagCardinality([r \in rs |-> outgoing[r]])

\* the workers that are in their critical section in this step
InCriticalSection ==
  {w \in WorkerIds : worker[w].pc = "invoke" /\ worker'[w].pc \in {"ack", "complete"}}

NewHops(c) == {f \in incoming' : f.conv = c /\ f.name >= nextFile}

\* C16: once the count of processed messages of a conversation has reached
\* the cap (and already in the step in which a response brings it there),
\* no hop is enqueued for the conversation and no response raises pending:
\* every response takes exactly one off pending, and the conversation is
\* removed by the branch that brings pending to 0.
C16_CapStopsEnqueue ==
  /\ [](\A c \in DOMAIN convs : convs[c].max_messages = MAX_CONVERSATION_MESSAGES)
  /\ [][\A c \in DOMAIN convs :
          (convs[c].total_messages + 1 >= convs[c].max_messages) =>
            /\ NewHops(c) = {}
            /\ c \in DOMAIN convs' =>
                 \/ convs'[c] = convs[c]
                 \/ /\ convs'[c].total_messages = convs[c].total_messages + 1
                    /\ convs'[c].pending = convs[c].pending - 1
                    /\ convs'[c].pending >= 1
            /\ (c \notin DOMAIN convs' /\ InCriticalSection # {}) =>
                 /\ convs[c].pending = 1
                 /\ \E w \in WorkerIds : \E d \in worker'[w].done :
                      d.id = c /\ d.conv.pending = 0 ]_vars

\* a response that names a teammate was recorded at the cap: the count is
\* at the cap, the mention is in the recorded step and no file was written
\* for it
C16_Witness ==
  \E c \in DOMAIN convs :
    /\ convs[c].total_messages >= MAX_CONVERSATION_MESSAGES
    /\ convs[c].pending = 1
    /\ hops = 1
    /\ LET last == convs[c].responses[Len(convs[c].responses)]
       IN /\ last.agent_id = "coder"
          /\ last.response = <<Tag("bracket", "reviewer")>>
    /\ \A f \in incoming \cup processing : f.agent # "reviewer"

(***************************************************************************)
(* Properties of the aggregated reply and of the transcript.               *)
(***************************************************************************)
\* the ids of the tokens of one form, in the order of the text
IdsOf(text, form) ==
  LET sel == SelectSeq(text, LAMBDA t : t.form = form)
  IN [i \in 1..Len(sel) |-> sel[i].id]

\* the agents of the recorded steps, in the order of the list
AgentsOf(responses) == [i \in 1..Len(responses) |-> responses[i].agent_id]

\* the responses of the recorded steps one after the other
RECURSIVE Concat(_)
Concat(responses) ==
  IF responses = <<>> THEN <<>>
  ELSE Head(responses).response \o Concat(Tail(responses))

\* a text without its directive tags
WithoutDirectives(text) == SelectSeq(text, LAMBDA t : t.form \notin {"bracket", "bang"})

\* a text without labels, separators and headings
BodyOf(text) ==
  SelectSeq(text, LAMBDA t : t.form \notin {"label", "separator", "heading"})

\* the step list of every conversation only grows at its end
AppendOnly ==
  [][\A c \in DOMAIN convs \cap DOMAIN convs' :
       /\ Len(convs'[c].responses) >= Len(convs[c].responses)
       /\ SubSeq(convs'[c].responses, 1, Len(convs[c].responses)) = convs[c].responses]_vars

\* reply r and its transcript present the steps of conv in recorded order
InRecordedOrder(r, conv) ==
  LET steps == conv.responses
  IN /\ r.mid = conv.message_id
     /\ Len(steps) # 1 =>
          /\ IdsOf(r.message, "label") = AgentsOf(steps)
          /\ Len(IdsOf(r.message, "separator")) = IF steps = <<>> THEN 0 ELSE Len(steps) - 1
          /\ r.message # <<>> => r.message[Len(r.message)].form # "separator"
          /\ BodyOf(r.message) = WithoutDirectives(Concat(steps))
     /\ IF conv.team_context # NoTeam
        THEN /\ IdsOf(r.transcript, "heading") = AgentsOf(steps)
             /\ BodyOf(r.transcript) = Concat(steps)
        ELSE r.transcript = <<>>

\* the reply to a conversation with a single step is the step's response
SingleVerbatim(r, conv) ==
  Len(conv.responses) = 1 => r.message = conv.responses[1].response

\* the reply to a conversation with a single step is the step's response
\* without its directive tags
SingleStripped(r, conv) ==
  Len(conv.responses) = 1 => r.message = WithoutDirectives(conv.responses[1].response)

\* the replies written in this step for conversation c
WrittenFor(c) == {r \in BagToSet(outgoing') : r.conv = c /\ ~BagIn(r, outgoing)}

\* the step in which worker w finalizes the conversation it completed
Finalizes(w) == worker[w].pc = "complete" /\ worker'[w].pc = "idle" /\ crashes' = crashes

\* the step in which the sweep finalizes the conversations that timed out
Sweeps == pollPc = "sleep" /\ convs' # convs /\ crashes' = crashes /\ InCriticalSection = {}

RoutingCfg == RoutingAgents(rules)

\* the id of the leading @ token, in lower case
Candidate == Lower(raw[1].w)

AgentsNamed(c) == {a \in RoutingAgentIds : Lower(RoutingCfg[a].name) = c}

TeamsNamed(c) == {t \in DOMAIN RoutingTeams : Lower(RoutingTeams[t].name) = c}

Target(agent_id, is_team) == [agent_id |-> agent_id, is_team |-> is_team]

\* the message begins with @id followed by text, and the id is known
KnownPrefix ==
  /\ Len(raw) >= 2
  /\ raw[1].at
  /\ \/ Candidate \in RoutingAgentIds
     \/ Candidate \in DOMAIN RoutingTeams
     \/ AgentsNamed(Candidate) # {}
     \/ TeamsNamed(Candidate) # {}

\* what the prefix stands for: an agent id, else a team id, else the display
\* name of an agent, else the display name of a team
PrefixTargets ==
  IF Candidate \in RoutingAgentIds
  THEN {Target(Candidate, FALSE)}
  ELSE IF Candidate \in DOMAIN RoutingTeams
  THEN {Target(RoutingTeams[Candidate].leader_agent, TRUE)}
  ELSE IF AgentsNamed(Candidate) # {}
  THEN {Target(a, FALSE) : a \in AgentsNamed(Candidate)}
  ELSE {Target(RoutingTeams[t].leader_agent, TRUE) : t \in TeamsNamed(Candidate)}

\* the known agent ids that the leading run of @ tokens names
RunIds ==
  {Lower(raw[i].w) : i \in 1..(FirstNonAt(raw, 1) - 1)} \cap RoutingAgentIds

\* the leading run names two or more agents that no one team holds together
LeadsDispatch ==
  /\ Cardinality(RunIds) >= 2
  /\ ~\E t \in DOMAIN RoutingTeams : RunIds \subseteq SeqToSet(RoutingTeams[t].agents)

PrefixResolved ==
  /\ Target(routed.agent_id, routed.is_team) \in PrefixTargets
  /\ routed.message = Tail(raw)

FirstAt(a) ==
  CHOOSE i \in 1..(FirstNonAt(raw, 1) - 1) :
    /\ Lower(raw[i].w) = a
    /\ \A j \in 1..(i - 1) : Lower(raw[j].w) # a

\* m lists the agents of the leading run, each once, as they first appear
InFirstAppearance(m) ==
  /\ SeqToSet(m) = RunIds
  /\ Len(m) = Cardinality(RunIds)
  /\ \A i, j \in 1..Len(m) : i < j => FirstAt(m[i]) < FirstAt(m[j])

\* the text after the leading run of @ tokens
AfterRun == SubSeq(raw, FirstNonAt(raw, 1), Len(raw))

DispatchExactly ==
  /\ (routed.multi_agents # <<>>) <=> LeadsDispatch
  /\ LeadsDispatch => InFirstAppearance(routed.multi_agents)

Matching == {a \in RoutingAgentIds : MatchCount(raw, RoutingCfg, a) > 0}

\* a has the higher priority, or the same priority and more matches
Better(a, b) ==
  \/ RoutingCfg[a].route_priority > RoutingCfg[b].route_priority
  \/ /\ RoutingCfg[a].route_priority = RoutingCfg[b].route_priority
     /\ MatchCount(raw, RoutingCfg, a) > MatchCount(raw, RoutingCfg, b)

\* the matching agents that no matching agent is better than
Best == {a \in Matching : \A b \in Matching : ~Better(b, a)}

\* C20: among the agents with a matching pattern the call returns the one
\* with the highest priority, and of these the one with the most matches;
\* it returns none exactly when the best pair of priority and count is
\* that of two or more agents (or no agent matches); and it returns the same
\* in whatever order the agents are examined
C20_BestByPriorityThenCount ==
  routed # NotRouted =>
    /\ routed.agent_id = IF Cardinality(Best) = 1
                         THEN CHOOSE a \in Best : TRUE
                         ELSE NoAgent
    /\ \A o \in Orders : MatchInOrder(o, raw, RoutingCfg) = routed.agent_id

(***************************************************************************)
(* Properties of the choice of the agent.                                  *)
(***************************************************************************)
\* the agent map of the settings file of this state
AgentMap == get_agents(get_settings(settings).settings)

\* the agent that the routing of the processed message names
Wanted ==
  RouteOf(routed.file, AgentMap, get_teams(get_settings(settings).settings)).agent_id

\* an agent of the map was chosen: the routed one, else "default", else any
ChosenFromMap ==
  /\ routed.outcome \in {"agent", "dispatch"}
  /\ routed.agent_id \in DOMAIN AgentMap
  /\ routed.outcome = "agent" =>
       IF Wanted \in DOMAIN AgentMap THEN routed.agent_id = Wanted
       ELSE IF "default" \in DOMAIN AgentMap THEN routed.agent_id = "default"
       ELSE TRUE

TurnKey == resolve_session_key(SessionAgent, CurrentTurn.channel, CurrentTurn.sender)
Found == CurrentTurn.before[TurnKey]
Policy == scfg.reset_policy
Timeout == IF scfg.idle_timeout_minutes = None THEN DEFAULT_IDLE_TIMEOUT_MINUTES
           ELSE scfg.idle_timeout_minutes
ResetHour == IF scfg.reset_hour = None THEN DEFAULT_RESET_HOUR ELSE scfg.reset_hour

\* the session has been idle for longer than the timeout
IdleCondition(u, t) == t - u > Timeout * 60000

\* the reset hour of some day has come since the last update
DailyCondition(u, t) ==
  \E d \in 0..(t \div DayMs) :
    LET reset == d * DayMs + ResetHour * HourMs
    IN  ResetHour < 24 /\ u < reset /\ reset <= t

\* a turn has looked at a session that exists
Looked == turn # <<>> /\ CurrentTurn.pc = "resolved" /\ CurrentTurn.existed
Stale == ~CurrentTurn.fresh

\* C22: evaluate_session_freshness finds a session never stale under
\* "manual"; under "idle", stale exactly when it was last updated more than
\* idle_timeout_minutes * 60000 ms ago; under "both" and under an empty or
\* unrecognised policy, stale exactly when the daily or the idle condition
\* holds.
C22_FreshnessByPolicy ==
  Looked =>
    LET u == Found.updated_at
        t == CurrentTurn.at
    IN  /\ Policy = "manual" => ~Stale
        /\ Policy = "idle" => (Stale <=> IdleCondition(u, t))
        /\ Policy \in {"both", "", "weekly"} =>
             (Stale <=> (DailyCondition(u, t) \/ IdleCondition(u, t)))

\* a session with a timeout of 60 minutes, last updated 3 hours ago, is
\* found stale under "idle"
C22_Witness ==
  /\ Looked
  /\ Policy = "idle" /\ Timeout = 60
  /\ CurrentTurn.at - Found.updated_at = 3 * HourMs
  /\ Stale

\* the policy alone finds a session last updated at u stale at t
StaleByPolicy(u, t) ==
  CASE Policy = "manual" -> FALSE
    [] Policy = "daily" -> DailyCondition(u, t)
    [] Policy = "idle" -> IdleCondition(u, t)
    [] OTHER -> DailyCondition(u, t) \/ IdleCondition(u, t)

\* a turn resolves its session in this step
Resolves == Len(turn') = Len(turn) + 1

\* C23: a reset marker present when a turn resolves its session forces
\* should_reset under every policy, and the marker is gone after that read;
\* a turn that finds no marker and finds its session is reset exactly when
\* the policy finds the session stale.
C23_MarkerForcesOneReset ==
  [][Resolves =>
       LET r == turn'[Len(turn')]
           session_key == resolve_session_key(SessionAgent, r.channel, r.sender)
       IN  /\ flag => r.should_reset
           /\ ~flag'
           /\ (~flag /\ session_key \in DOMAIN sessions) =>
                (r.should_reset <=>
                   StaleByPolicy(sessions[session_key].updated_at, snow))]_vars

\* under "manual" a turn found the marker and a fresh session and was reset;
\* the next turn of the same session found no marker and was not
C23_Witness ==
  /\ Len(turn) = 2
  /\ Policy = "manual"
  /\ turn[1].flag_reset /\ turn[1].existed /\ turn[1].fresh /\ turn[1].should_reset
  /\ turn[2].sender = turn[1].sender
  /\ ~turn[2].flag_reset /\ ~turn[2].should_reset
  /\ ~flag

\* the current turn updates its session in this step
Updates == Resolving /\ turn'[Len(turn)].pc = "updated"
KeyOf(p) == resolve_session_key(SessionAgent, p[1], p[2])

\* C24: update_session leaves the session of the turn with a total of
\* message length + response length, on top of the previous total unless the
\* turn was reset or the session is new, and with the time of the update;
\* the session of every other (agent, channel, sender) is as it was.
C24_UpdateAccumulates ==
  [][Updates =>
       LET r == turn'[Len(turn)]
           k == KeyOf(<<r.channel, r.sender>>)
           previous == IF r.should_reset \/ k \notin DOMAIN sessions THEN 0
                       ELSE sessions[k].total_chars
       IN  /\ k \in DOMAIN sessions'
           /\ sessions'[k].total_chars =
                previous + r.message_chars + r.response_chars
           /\ sessions'[k].updated_at = snow
           /\ \A p \in Peers \ {<<r.channel, r.sender>>} :
                IF KeyOf(p) \in DOMAIN sessions
                THEN KeyOf(p) \in DOMAIN sessions' /\ sessions'[KeyOf(p)] = sessions[KeyOf(p)]
                ELSE KeyOf(p) \notin DOMAIN sessions']_vars

\* a turn that was not reset has added its lengths to a total that was not
\* 0, next to the session of another sender
C24_Witness ==
  /\ turn # <<>> /\ CurrentTurn.pc = "updated"
  /\ ~CurrentTurn.should_reset
  /\ Found.total_chars > 0 /\ CurrentTurn.response_chars > 0
  /\ sessions[TurnKey].total_chars =
       Found.total_chars + CurrentTurn.message_chars + CurrentTurn.response_chars
  /\ sessions[TurnKey].updated_at > Found.updated_at
  /\ \E p \in Peers : KeyOf(p) # TurnKey /\ KeyOf(p) \in DOMAIN sessions

(***************************************************************************)
(* Properties of the compaction.                                           *)
(***************************************************************************)
Checked == turn # <<>> /\ turn[1].pc = "checked"
Budget == IF turn[1].reserve_tokens >= turn[1].context_window THEN 0
          ELSE turn[1].context_window - turn[1].reserve_tokens

\* C25: should_compact(total, window, reserve) is true exactly when
\* total > (window - reserve) * 4, with a budget of 0 when reserve >= window;
\* with window 200000 and reserve 40000 a total of 640000 does not compact
\* and a total of 640001 does.
C25_CompactAboveBudget ==
  Checked =>
    /\ turn[1].compact <=> turn[1].total_chars > Budget * 4
    /\ (turn[1].context_window = 200000 /\ turn[1].reserve_tokens = 40000) =>
         /\ turn[1].total_chars = 640000 => ~turn[1].compact
         /\ turn[1].total_chars = 640001 => turn[1].compact

C25_Witness ==
  /\ Checked
  /\ turn[1].context_window = 200000 /\ turn[1].reserve_tokens = 40000
  /\ turn[1].total_chars = 640001
  /\ turn[1].compact

(***************************************************************************)
(* Properties of the stores as files.                                      *)
(***************************************************************************)
\* caller c reads the store in this step
Loads(c) == call[c].pc = "idle" /\ call'[c].pc = "invoking"

\* C26: a reader of a store that is being saved observes the complete old
\* content or the complete new content.
C26_ReadersSeeOldOrNew ==
  [][\A c \in Callers : \A w \in Callers :
       (Loads(c) /\ call[w].pc = "saving") =>
         call'[c].cooldowns \in {call[w].replaced, call[w].cooldowns}]_vars

(***************************************************************************)
(* Properties of the poll loop.                                            *)
(***************************************************************************)
\* C27: handing an item to a worker never makes the poll loop wait: in the
\* middle of a tick the next item of the listing can always be handed off
\* (or skipped as already handed off), whatever the workers are doing and
\* however many items wait in the channel of one agent.
C27_HandoffNeverWaits ==
  (pollPc = "dispatch" /\ listing # <<>>) =>
    \/ AlreadyQueued(Head(listing), queued)
    \/ Len(chan[peek_agent_id(Head(listing), incoming, Agents, Teams)]) < ChannelCapacity

\* the files in incoming whose JSON does not parse
Unparsed == {f \in incoming : ~f.ok}

\* worker w receives the name of such a file in this step
Rejects(w) ==
  /\ worker[w].pc = "idle"
  /\ chan[w] # <<>>
  /\ chan'[w] = Tail(chan[w])
  /\ Head(chan[w]) \in Names(Unparsed)

\* C28: an item whose JSON does not parse is back in incoming after every
\* attempt, with its worker free for the next item, and is handed to a worker
\* again and again; the poll loop keeps ticking, and every well-formed item
\* that is in the queue next to such an item is eventually answered.
C28_PoisonItemHarmless ==
  /\ [][\A w \in WorkerIds :
          Rejects(w) =>
            /\ Head(chan[w]) \in Names(incoming')
            /\ Head(chan[w]) \notin Names(processing')
            /\ Head(chan[w]) \notin queued'
            /\ worker'[w].pc = "idle"]_vars
  /\ \A n \in 1..MaxUserMsgs :
       [](n \in Names(Unparsed) => (<>(n \in queued) /\ <>(n \notin queued)))
  /\ []<>(pollPc = "sleep")
  /\ \A m \in 1..MaxUserMsgs :
       (Unparsed # {} /\ \E f \in incoming \cup processing : f.mid = m /\ f.ok)
         ~> (CopiesIn(m, outgoing) >= 1)

\* the worker that sent back an item that does not parse is invoking the
\* agent for the well-formed item that came after it
C28_Witness ==
  \E w \in WorkerIds : \E p \in Unparsed :
    /\ peek_agent_id(p.name, incoming, Agents, Teams) = w
    /\ p.name \notin queued
    /\ worker[w].pc = "invoke"
    /\ worker[w].file.ok
    /\ worker[w].file.name > p.name
    /\ crashes = 0

\* caller d has recorded a failure of key K, and the store holds it
RecordedBy(d, K) ==
  /\ \E i \in 1..Len(call[d].log) :
       call[d].log[i].key = K /\ call[d].log[i].what = "failed"
  /\ K \in DOMAIN store
  /\ K \in DOMAIN call[d].cooldowns
  /\ store[K] = call[d].cooldowns[K]

\* an invocation of caller c returns in this step
Returns(c) == call[c].pc = "invoking" /\ call'[c].pc # "invoking"

\* C29: a failure that one worker has recorded for key K is in the store,
\* with its error count, after the invocation of a different key by another
\* worker has returned.
C29_FailureSurvivesOthers ==
  [][\A c \in Callers : \A d \in Callers \ {c} : \A K \in Models :
       (Returns(c) /\ Candidates(c)[call[c].idx] # K /\ RecordedBy(d, K)) =>
         /\ K \in DOMAIN store'
         /\ store'[K].error_count = store[K].error_count]_vars

(***************************************************************************)
(* Properties of the handoffs.                                             *)
(***************************************************************************)
\* the hops in the queue that were written in a team conversation
TeamHops ==
  {f \in incoming \cup processing :
     /\ f.conv \in DOMAIN convs
     /\ f.from # NoAgent
     /\ convs[f.conv].team_context # NoTeam}

\* C30: in a team conversation, a hop written for the response of an agent
\* whose cross_team_handoffs flag is off goes to a member of the
\* conversation's team.
C30_FlagOffStaysInTeam ==
  \A f \in TeamHops :
    ~Agents[f.from].cross_team_handoffs =>
      f.agent \in SeqToSet(Teams[convs[f.conv].team_context].agents)

(***************************************************************************)
(* Properties of the accounting of a recorded response.                    *)
(***************************************************************************)
\* the step in which the branch of worker w records its response in a
\* conversation (a direct reply writes to outgoing and records nothing)
Records(w) ==
  /\ worker[w].pc = "invoke"
  /\ worker'[w].pc \in {"ack", "complete"}
  /\ outgoing' = outgoing

\* the id of the conversation in which worker w records
RecordedIn(w) ==
  LET f == worker[w].file
  IN IF f.conv # NoConv /\ f.conv \in DOMAIN convs THEN f.conv ELSE ConvId(f)

\* the conversation before the response is recorded: the one of the table,
\* or the one that is created for the message (pending 1, nothing processed)
Before(w) ==
  IF RecordedIn(w) \in DOMAIN convs THEN convs[RecordedIn(w)]
  ELSE [pending |-> 1, total_messages |-> 0,
        max_messages |-> MAX_CONVERSATION_MESSAGES, team_context |-> worker[w].team]

\* the conversation after the step: in the table, or with the worker that
\* is about to complete it
After(w) ==
  IF RecordedIn(w) \in DOMAIN convs' THEN convs'[RecordedIn(w)]
  ELSE (CHOOSE d \in worker'[w].done : d.id = RecordedIn(w)).conv

\* the valid mentions of the response that was recorded last
MentionsOf(w) ==
  LET last == After(w).responses[Len(After(w).responses)].response
  IN IF worker[w].team = NoTeam
     THEN AdHocMentions(last, worker[w].agent, Agents)
     ELSE TeamMentions(last, worker[w].agent, Before(w).team_context, Teams, Agents)

Created == DOMAIN convs' \ DOMAIN convs

\* the user messages that leave incoming in this step and are addressed to
\* several agents
Dispatched ==
  {f \in incoming \ incoming' :
     f.conv = NoConv /\ Len(RouteOf(f, Agents, Teams).multi_agents) > 1}

\* the hops of a dispatch that have not responded yet
DispatchHops == {f \in incoming \cup processing :
                   f.from = "dispatch" /\ f \in Unprocessed(f.conv, incoming, processing, worker)}

\* C32: a multi-agent dispatch to k agents creates one conversation with
\* pending = k and enqueues exactly k internal hops, one per target; no
\* agent is invoked for the original message, which is acked (it is in
\* neither directory afterwards and no reply is written for it).  Every
\* other conversation enters the table with its first response recorded
\* and the pending that a conversation created with pending = 1 has after
\* it (the hops of that response).  The reply of a dispatch conversation
\* is written only when none of its k hops is still to respond, or by the
\* sweep of a tick once the conversation has timed out.
C32_DispatchFansOut ==
  /\ [][\A f \in Dispatched :
          LET targets == RouteOf(f, Agents, Teams).multi_agents
              c == ConvId(f)
          IN /\ Created = {c}
             /\ convs'[c].pending = Len(targets)
             /\ convs'[c].responses = <<>>
             /\ convs'[c].total_messages = 0
             /\ convs'[c].message_id = f.mid
             /\ Cardinality(NewHops(c)) = Len(targets)
             /\ incoming' \ incoming = NewHops(c)
             /\ \A a \in SeqToSet(targets) :
                  Cardinality({h \in NewHops(c) : h.agent = a /\ h.from = "dispatch"}) = 1
             /\ f \notin processing'
             /\ worker' = worker
             /\ outgoing' = outgoing
             /\ f.name \notin queued' ]_vars
  /\ [][\A c \in Created :
          \/ \E f \in Dispatched : c = ConvId(f)
          \/ /\ Len(convs'[c].responses) = 1
             /\ convs'[c].total_messages = 1
             /\ convs'[c].pending = 1 + Cardinality(NewHops(c)) - 1 ]_vars
  /\ [](\A f \in DispatchHops :
          /\ \A w \in WorkerIds : \A d \in worker[w].done : d.id # f.conv
          /\ f.conv \in DOMAIN convs =>
               convs[f.conv].pending
                 >= Cardinality({h \in DispatchHops : h.conv = f.conv}))
  /\ [][\A f \in DispatchHops :
          CallsFor(f.conv)' > CallsFor(f.conv) =>
            /\ pollPc = "sleep"
            /\ f.conv \in TimedOut(convs, now) ]_vars

\* a message for three agents was dispatched and answered: the reply of
\* its conversation holds the three responses, no time has passed and none
\* of its hops is left
C32_Witness ==
  /\ now = 0
  /\ crashes = 0
  /\ \E r \in BagToSet(outgoing) :
       /\ r.conv = 1
       /\ \A a \in AgentIds : \E i \in 1..Len(r.message) : r.message[i] = Label(a)
  /\ \A f \in incoming \cup processing : f.from # "dispatch"

(***************************************************************************)
(* Properties of the mention extraction.                                   *)
(***************************************************************************)
\* the ids (in lower case) that the response tags in one of the forms
Tagged(forms) ==
  {Lower(handoff.response[i].id) :
     i \in {j \in 1..Len(handoff.response) : handoff.response[j].form \in forms}}

\* the agents other than the responding one
Others == DOMAIN Agents \ {handoff.agent_id}

\* what each strategy may claim: teammates in brackets, any other agent
\* with the ! form if the responding agent's flag allows it, any other agent
\* addressed in plain words; outside a team both bracket forms reach any
\* other agent
Claimed ==
  IF handoff.team_id = NoTeam
  THEN <<Tagged({"bracket", "bang"}) \cap Others, {}, Tagged({"natural"}) \cap Others>>
  ELSE <<Tagged({"bracket"}) \cap Others \cap SeqToSet(Teams[handoff.team_id].agents),
         IF Agents[handoff.agent_id].cross_team_handoffs
         THEN Tagged({"bang"}) \cap Others ELSE {},
         Tagged({"natural"}) \cap Others>>

\* C33: for one response there is at most one mention, hence one internal
\* hop, per target agent id and none for the responding agent: the
\* mentions are distinct known agents other than the responding one, they
\* are the ids claimed by the teammate brackets, then those claimed by the
\* cross-team brackets and not by the former, then those addressed in
\* plain words and claimed by neither, whatever the number of tags or
\* lines for an id.
C33_OneHopPerTarget ==
  handoff.pc = "extracted" =>
    LET m == handoff.mentions
        first == Claimed[1]
        second == Claimed[2] \ first
        third == Claimed[3] \ (first \cup second)
    IN /\ \A i, j \in 1..Len(m) : m[i] = m[j] => i = j
       /\ handoff.agent_id \notin SeqToSet(m)
       /\ SeqToSet(m) \subseteq DOMAIN Agents
       /\ SeqToSet(m) = first \cup second \cup third
       /\ Len(m) = Cardinality(first) + Cardinality(second) + Cardinality(third)
       /\ \A i \in 1..Len(m) :
            /\ i <= Cardinality(first) => m[i] \in first
            /\ (i > Cardinality(first) /\ i <= Cardinality(first) + Cardinality(second))
                 => m[i] \in second
            /\ i > Cardinality(first) + Cardinality(second) => m[i] \in third

\* the leader tagged its teammate in brackets, addressed the teammate again
\* in plain words and tagged ops across teams: one mention for each
C33_Witness ==
  /\ handoff.pc = "extracted"
  /\ handoff.agent_id = "coder"
  /\ handoff.team_id = "dev"
  /\ handoff.response = <<Tag("bracket", "reviewer"), Tag("natural", "reviewer"),
                          Tag("bang", "ops")>>
  /\ handoff.mentions = <<"reviewer", "ops">>

(***************************************************************************)
(* Properties of a turn: the session update and the compaction.            *)
(***************************************************************************)
\* the turn that has just ended, its key, and what the store held for the
\* key before the turn's update
Ended == IF turn = <<>> THEN FALSE ELSE CurrentTurn.pc = "replied"
EndedKey == resolve_session_key(SessionAgent, CurrentTurn.channel, CurrentTurn.sender)
Known == EndedKey \in DOMAIN CurrentTurn.before
TotalBefore == IF Known THEN CurrentTurn.before[EndedKey].total_chars ELSE 0
CountBefore == IF Known THEN CurrentTurn.before[EndedKey].compaction_count ELSE 0

\* the running total after the turn's update
Running ==
  (IF CurrentTurn.should_reset THEN 0 ELSE TotalBefore)
    + CurrentTurn.message_chars + CurrentTurn.response_chars

\* the compaction threshold of the agent, in characters
TurnBudget ==
  ((IF scfg.context_window = None THEN DEFAULT_CONTEXT_WINDOW ELSE scfg.context_window)
     - DEFAULT_RESERVE_TOKENS) * CHARS_PER_TOKEN

\* C34: when the running total after a turn's session update strictly
\* exceeds the compaction threshold, the turn ends with the session's
\* running total equal to the length of the summary, or of the placeholder
\* note when the summarization failed, and with the compaction count
\* increased by exactly 1, and the reply of the turn is delivered; when the
\* total does not exceed the threshold the turn ends with the total and the
\* count that the update left.
C34_CompactionResetsTotal ==
  /\ Ended =>
       /\ CurrentTurn.total_chars = Running
       /\ IF Running > TurnBudget
          THEN /\ sessions[EndedKey].total_chars = CurrentTurn.summary_chars
               /\ sessions[EndedKey].compaction_count = CountBefore + 1
               /\ IF CurrentTurn.summarized
                  THEN CurrentTurn.summary_chars \in {r.chars : r \in SummaryOutcomes}
                  ELSE CurrentTurn.summary_chars
                         = PlaceholderChars
                             + (IF Running < 10 THEN 1 ELSE IF Running < 100 THEN 2 ELSE 3)
          ELSE /\ sessions[EndedKey].total_chars = Running
               /\ sessions[EndedKey].compaction_count = CountBefore
  /\ (turn # <<>> /\ ~Ended) =>
       /\ CurrentTurn.pc \in {"resolved", "invoked", "updated", "compacting", "compacted"}
       /\ CurrentTurn.pc = "compacting" => CurrentTurn.total_chars > TurnBudget
       /\ CurrentTurn.pc = "updated" => CurrentTurn.total_chars <= TurnBudget

\* the agent answered, the total went over the budget, the request for a
\* summary failed: the turn has ended with the reply, the session holds the
\* length of the note and has been compacted once
C34_Witness ==
  /\ Ended
  /\ CurrentTurn.ok
  /\ Running = TurnBudget + 1
  /\ ~CurrentTurn.summarized
  /\ sessions[EndedKey].total_chars = PlaceholderChars + 1
  /\ sessions[EndedKey].compaction_count = 1

\* C35: the running total is accumulated only for a successful invocation.
\* When the failover chain is exhausted and the apology is returned, the
\* turn ends with the session entry of its (agent, channel, sender) key as
\* it was before the turn: the total is not increased, the session id is
\* not regenerated, no compaction is counted, and no entry is created.
C35_FailedTurnLeavesSession ==
  (Ended /\ ~CurrentTurn.ok) =>
    IF Known
    THEN /\ EndedKey \in DOMAIN sessions
         /\ sessions[EndedKey].total_chars = TotalBefore
         /\ sessions[EndedKey].session_id = CurrentTurn.before[EndedKey].session_id
         /\ sessions[EndedKey].compaction_count = CountBefore
    ELSE EndedKey \notin DOMAIN sessions

(***************************************************************************)
(* Properties of the daily reset.                                          *)
(***************************************************************************)
\* the occurrences of the reset hour (UTC) up to the time t, yesterday's
\* of the first day included
Occurrences(t) ==
  {o \in {d * DayMs + ResetHour * HourMs : d \in (0 - 1)..(t \div DayMs)} : o <= t}

\* the most recent of them
LastOccurrence(t) == CHOOSE o \in Occurrences(t) : \A q \in Occurrences(t) : q <= o

\* today's occurrence of the reset hour
TodaysOccurrence(t) == (t \div DayMs) * DayMs + ResetHour * HourMs

\* C36: under the daily policy, with a reset hour that is an hour of the
\* day, a session is stale exactly when its last update precedes the most
\* recent occurrence of the reset hour (UTC) at or before now, which is
\* today's if now has reached it and yesterday's otherwise; a session
\* updated at or after that occurrence is fresh.
C36_DailyReset ==
  (Looked /\ Policy = "daily" /\ ResetHour < 24) =>
    LET u == Found.updated_at
        t == CurrentTurn.at
    IN  /\ Stale <=> u < LastOccurrence(t)
        /\ LastOccurrence(t) = IF t >= TodaysOccurrence(t) THEN TodaysOccurrence(t)
                               ELSE TodaysOccurrence(t) - DayMs
        /\ u >= LastOccurrence(t) => CurrentTurn.fresh /\ ~CurrentTurn.should_reset

\* a session last updated at 03:00 is looked at at 01:00 of the next day,
\* before the reset hour (04:00) of that day: yesterday's occurrence makes
\* it stale
C36_Witness ==
  /\ Looked
  /\ Policy = "daily"
  /\ ResetHour = DEFAULT_RESET_HOUR
  /\ Found.updated_at = 3 * HourMs
  /\ CurrentTurn.at = DayMs + HourMs
  /\ Stale
  /\ CurrentTurn.should_reset

(***************************************************************************)
(* Properties of the order within a worker.                                *)
(***************************************************************************)
\* worker w takes an item in this step
Takes(w) == chan[w] # <<>> /\ chan'[w] = Tail(chan[w])

\* the item that worker w is processing leaves it in this step
Leaves(w) == worker[w].pc # "idle" /\ worker'[w] = IdleWorker

\* C37: within one agent's worker the items are processed one at a time
\* in the order in which they were handed to it.  The listing of a tick is
\* in ascending modification time and is handed out from its head; the
\* channel of a worker grows at its end and shrinks at its head; a worker
\* takes an item only while it processes none, the item it then processes
\* is the head of its channel, and it keeps that item until the processing
\* of it (the invocation of the agent and what follows it) has finished.
C37_OneAtATimeInOrder ==
  /\ [](\A i, j \in 1..Len(listing) : i < j => listing[i] < listing[j])
  /\ [][\A w \in WorkerIds :
          chan'[w] # chan[w] =>
            \/ /\ crashes' = crashes + 1
               /\ chan'[w] = <<>>
            \/ /\ pollPc = "dispatch"
               /\ chan'[w] = Append(chan[w], Head(listing))
               /\ \A i \in 1..Len(listing') : Head(listing) < listing'[i]
               /\ worker' = worker
            \/ /\ Takes(w)
               /\ worker[w].pc = "idle" ]_vars
  /\ [][\A w \in WorkerIds :
          /\ (worker[w].pc = "idle" /\ worker'[w].pc # "idle") =>
               /\ Takes(w)
               /\ worker'[w].pc = "invoke"
               /\ worker'[w].file.name = Head(chan[w])
          /\ worker[w].pc # "idle" =>
               /\ chan'[w] = chan[w] \/ Len(chan'[w]) > Len(chan[w]) \/ crashes' # crashes
               /\ worker'[w].file = worker[w].file \/ Leaves(w)
               /\ (Leaves(w) /\ crashes' = crashes) => worker[w].pc \in {"ack", "complete"}
        ]_vars

\* a worker is with the agent for the older of two messages while the
\* younger one waits in its channel
C37_Witness ==
  \E w \in WorkerIds :
    /\ worker[w].pc = "invoke"
    /\ chan[w] # <<>>
    /\ worker[w].file.name < Head(chan[w])
    /\ Head(chan[w]) \in Names(incoming)

(***************************************************************************)
(* Properties of loading a store from a damaged file.                      *)
(***************************************************************************)
\* the text is the whole text of a map: it opens and closes
WholeText(text) ==
  /\ Len(text) >= 2
  /\ text[1].key = "{"
  /\ text[Len(text)].key = "}"

\* the file is missing, unreadable or not valid JSON
Unusable(path) == ~path.exists \/ ~path.readable \/ ~WholeText(path.text)

LoadsCooldowns(c) == call[c].pc = "idle" /\ call'[c].pc = "check"
FirstCheck(c) == call[c].pc = "check" /\ call[c].log = <<>> /\ call'[c] # call[c]

\* C38: a cooldown file or a session file that is missing, unreadable or not
\* valid JSON loads as the empty store: the call that loaded it finds no key
\* cooling down and invokes its first candidate, and a turn whose key has no
\* entry in the loaded store, as every turn after such a load, starts with
\* should_reset = TRUE
C38_UnusableFileLoadsEmpty ==
  [][/\ \A c \in Callers :
          LoadsCooldowns(c) /\ Unusable(store) =>
            /\ call'[c].cooldowns = << >>
            /\ \A key \in Models : ~is_in_cooldown(call'[c].cooldowns, key, fnow)
     /\ \A c \in Callers :
          FirstCheck(c) /\ Unusable(call[c].file) => call'[c].pc = "invoking"
     /\ Resolves /\ Unusable(sessions) =>
          /\ CurrentTurn'.before = << >>
          /\ CurrentTurn'.should_reset
     /\ Resolves /\ resolve_session_key(SessionAgent, CurrentTurn'.channel, CurrentTurn'.sender)
                      \notin DOMAIN CurrentTurn'.before =>
          CurrentTurn'.should_reset]_vars

\* a call loaded a cut-off text that held an entry cooling down and invoked
\* that key, and a turn began on a cut-off text that held its sender's entry
C38_Witness ==
  /\ \E c \in Callers :
       /\ call[c].pc = "invoking"
       /\ call[c].file.exists /\ call[c].file.readable
       /\ ~WholeText(call[c].file.text)
       /\ \E i \in 1..Len(call[c].file.text) :
            call[c].file.text[i].key = Candidates(c)[1]
  /\ turn # <<>>
  /\ CurrentTurn.file.exists /\ CurrentTurn.file.readable
  /\ ~WholeText(CurrentTurn.file.text)
  /\ \E i \in 1..Len(CurrentTurn.file.text) :
       CurrentTurn.file.text[i].key =
         resolve_session_key(SessionAgent, CurrentTurn.channel, CurrentTurn.sender)
  /\ CurrentTurn.should_reset

(***************************************************************************)
(* Properties of the error count over expiry and skipping.                 *)
(***************************************************************************)
\* the maps the callers hold are as they were
CopiesKept == \A c \in Callers : call'[c].cooldowns = call[c].cooldowns

\* the step in which caller c skips its next candidate
Skips(c) == Decides(c) /\ call'[c].log[Len(call'[c].log)].what = "skipped"

\* the window of key in a map has passed at t
Expired(cooldowns, key, t) == key \in DOMAIN cooldowns /\ cooldowns[key].until <= t

MaxMentions == Cardinality(AgentIds) - 1

\* the hops a conversation can still enqueue: MaxMentions for each response
\* that is recorded below the cap
HopsLeft(conv) ==
  (IF conv.total_messages + 1 < conv.max_messages
   THEN conv.max_messages - 1 - conv.total_messages ELSE 0) * MaxMentions

\* the hops enqueued since the start of the run
HopsWritten == nextFile - 3

\* C40: the hops a conversation enqueues are bounded by the cap and the
\* number of agents: a response enqueues at most one hop for each other
\* agent and only while the count of recorded responses is below the cap,
\* which every response brings one closer, so the hops written so far and
\* those that can still come never exceed what the cap allowed at the
\* start; a conversation leaves the table only in the branch that brings
\* pending to 0, the clock standing still; and with invocations that return
\* and workers that are scheduled the conversation ends and the queue is
\* empty for good
C40_CyclesEnd ==
  /\ [](\A c \in DOMAIN convs :
         HopsWritten + HopsLeft(convs[c]) <= (CycleMargin - 1) * MaxMentions)
  /\ [](HopsWritten <= (CycleMargin - 1) * MaxMentions)
  /\ [][\A c \in DOMAIN convs :
          /\ Cardinality(NewHops(c)) <= MaxMentions
          /\ NewHops(c) # {} =>
               /\ c \in DOMAIN convs'
               /\ convs[c].total_messages + 1 < convs[c].max_messages
               /\ convs'[c].total_messages = convs[c].total_messages + 1
          /\ c \notin DOMAIN convs' =>
               /\ now = 0
               /\ \E w \in WorkerIds : \E d \in worker'[w].done :
                    d.id = c /\ d.conv.pending = 0]_vars
  /\ <>[](DOMAIN convs = {} /\ incoming = {} /\ processing = {})

\* the cycle ran as long as the cap lets it: every response below the cap
\* named both other agents, the branches that answered at the cap wrote tags
\* that were not enqueued, and the last of them brought pending to 0
C40_Witness ==
  /\ now = 0
  /\ HopsWritten = (CycleMargin - 1) * MaxMentions
  /\ hops > HopsWritten + 1
  /\ \E w \in WorkerIds : \E d \in worker[w].done :
       /\ d.id = 1
       /\ d.conv.pending = 0
       /\ d.conv.total_messages > MAX_CONVERSATION_MESSAGES

====
